---- MODULE Spec2Model ----
(***************************************************************************)
(* Model of the Normalizer orchestrator of indic_text_normalization        *)
(* (text_normalization/normalize.py): the permutation estimate, the token  *)
(* split, the field-order enumeration, one normalize() call, the batch     *)
(* entry point normalize_list() and two normalize() calls running on the   *)
(* same Normalizer object; then post_process, the classifier's hyphen      *)
(* rewrite, the time verbalizer under the field-order search, the          *)
(* compiled-grammar cache of the grammar constructors and the steps of     *)
(* Normalizer.__init__, each under a specification of its own.             *)
(*                                                                         *)
(* Texts are sequences of one-character strings.  Every non-blank          *)
(* character of the input alphabet stands for one written span:            *)
(*   "7" a telephone number      "$" a money amount                        *)
(*   "d" a date dd-mm-yyyy that also reads mm-dd-yyyy                      *)
(*   "D" a date that only reads mm-dd                                      *)
(*   "k" a measure written unit first ("kg-12.5")                          *)
(*   "m" a measure written number first ("12.5kg")                         *)
(*   "[" a punctuation mark that pynini.escape rewrites                    *)
(*   "?" a symbol no class of the tagger accepts                           *)
(* Weights are the source's weights multiplied by 1000.                    *)
(***************************************************************************)
EXTENDS Integers, Sequences, FiniteSets, TLC

(***************************************************************************)
(* Bounds of the model.                                                    *)
(***************************************************************************)
MaxWords == 2
MaxM == 12
MaxListLen == 2
MaxBatch == 2
MaxPostLen == 3
MaxRewriteLen == 3
MaxConstructions == 2
MaxTokens == 2
MaxSplitLen == 3

\* normalize.py:112, default of max_number_of_permutations_per_split
DefaultMaxPermutations == 729

(***************************************************************************)
(* Strings.                                                                *)
(***************************************************************************)
Spans == {"7", "$", "d", "D", "k", "m", "[", "?"}

\* the written words: one span each, and one run of two spans
Words == {<<c>> : c \in Spans} \cup {<<"7", "$">>}

RECURSIVE SeqsUpTo(_, _)
SeqsUpTo(S, n) ==
    IF n = 0 THEN {<<>>}
    ELSE LET shorter == SeqsUpTo(S, n - 1)
         IN shorter \cup {Append(s, x) : s \in shorter, x \in S}

\* "".join(chars) as a TLA+ string
RECURSIVE Str(_)
Str(chars) == IF chars = <<>> THEN "" ELSE Head(chars) \o Str(Tail(chars))

\* s[a:] of Python, a >= 0
DropFirst(s, a) == SubSeq(s, a + 1, Len(s))

IsSpace(c) == c = " "

\* str.strip()
RECURSIVE LStrip(_)
LStrip(s) == IF s # <<>> /\ IsSpace(Head(s)) THEN LStrip(Tail(s)) ELSE s

RECURSIVE RStrip(_)
RStrip(s) ==
    IF s # <<>> /\ IsSpace(s[Len(s)]) THEN RStrip(SubSeq(s, 1, Len(s) - 1)) ELSE s

Strip(s) == RStrip(LStrip(s))

\* pynini.escape: a backslash before each of [ ] \
Reserved == {"[", "]", "\\"}

RECURSIVE Escape(_)
Escape(s) ==
    IF s = <<>> THEN <<>>
    ELSE IF Head(s) \in Reserved THEN <<"\\", Head(s)>> \o Escape(Tail(s))
    ELSE <<Head(s)>> \o Escape(Tail(s))

\* compilation of an escaped string into an acceptor: "\x" is the symbol x
RECURSIVE Compile(_)
Compile(s) ==
    IF s = <<>> THEN <<>>
    ELSE IF Head(s) = "\\" /\ Len(s) >= 2 THEN <<s[2]>> \o Compile(DropFirst(s, 2))
    ELSE <<Head(s)>> \o Compile(Tail(s))

\* mutant: runs of spaces are kept
SpaceDupSub_mutant_keeps_runs(s) == s

\* SPACE_DUP.sub(' ', s): every run of two or more spaces becomes one space
RECURSIVE SpaceDupSub(_)
SpaceDupSub(s) ==
    IF Len(s) < 2 THEN s
    ELSE IF s[1] = " " /\ s[2] = " " THEN SpaceDupSub(Tail(s))
    ELSE <<Head(s)>> \o SpaceDupSub(Tail(s))

\* " ".join(parts)
RECURSIVE JoinSpace(_)
JoinSpace(parts) ==
    IF parts = <<>> THEN <<>>
    ELSE IF Len(parts) = 1 THEN parts[1]
    ELSE parts[1] \o <<" ">> \o JoinSpace(Tail(parts))

\* the input texts: up to MaxWords words separated by one blank, with or
\* without a leading and a trailing blank
Blanks == {<<>>, <<" ">>}
Texts ==
    {lead \o JoinSpace(ws) \o trail :
        ws \in SeqsUpTo(Words, MaxWords), lead \in Blanks, trail \in Blanks}

(***************************************************************************)
(* Token trees: an ordered dictionary is a sequence of items; the value of *)
(* an item is a string (s), a nested dictionary (d) or the boolean true.   *)
(***************************************************************************)
PRESERVE_ORDER_KEY == "preserve_order"

StrItem(k, v) == [k |-> k, t |-> "str", s |-> v, d |-> <<>>]
DictItem(k, v) == [k |-> k, t |-> "dict", s |-> <<>>, d |-> v]
BoolItem(k) == [k |-> k, t |-> "bool", s |-> <<>>, d |-> <<>>]

Keys(dict) == [i \in 1..Len(dict) |-> dict[i].k]
HasKey(dict, key) == \E i \in 1..Len(dict) : dict[i].k = key

\* one entry of the list TokenParser.parse() returns
Token(class, fields) == <<DictItem("tokens", <<DictItem(class, fields)>>)>>
WordToken(v) == <<DictItem("tokens", <<StrItem("name", v)>>)>>

(***************************************************************************)
(* Normalizer._estimate_number_of_permutations_in_nested_dict              *)
(***************************************************************************)
RECURSIVE factorial(_)
factorial(n) == IF n <= 1 THEN 1 ELSE n * factorial(n - 1)

\* mutant: the factorial of the dictionary's own length is left out
RECURSIVE estimate_mutant_no_factorial(_)
estimate_mutant_no_factorial(token_group) ==
    LET RECURSIVE loop(_, _)
        loop(i, num_perms) ==
            IF i > Len(token_group) THEN num_perms
            ELSE IF token_group[i].t = "dict"
                 THEN loop(i + 1, num_perms * estimate_mutant_no_factorial(token_group[i].d))
                 ELSE loop(i + 1, num_perms)
    IN loop(1, 1)

RECURSIVE estimate_number_of_permutations_in_nested_dict(_)
estimate_number_of_permutations_in_nested_dict(token_group) ==
    LET RECURSIVE loop(_, _)
        loop(i, num_perms) ==
            IF i > Len(token_group) THEN num_perms
            ELSE IF token_group[i].t = "dict"
                 THEN loop(i + 1, num_perms
                          * estimate_number_of_permutations_in_nested_dict(token_group[i].d))
                 ELSE loop(i + 1, num_perms)
    IN loop(1, 1) * factorial(Len(token_group))

(***************************************************************************)
(* Normalizer._split_tokens_to_reduce_number_of_permutations.  The result  *)
(* is a record: raised is "" when the method returns its splits, else the  *)
(* name of the exception it raises.  i and prev_end_of_split are the       *)
(* 0-based indices of the code; tokens[a:b] is SubSeq(tokens, a + 1, b).   *)
(***************************************************************************)
RECURSIVE SumLen(_)
SumLen(splits) == IF splits = <<>> THEN 0 ELSE Len(Head(splits)) + SumLen(Tail(splits))

SplitReturn(tokens, splits) ==
    IF SumLen(splits) = Len(tokens)
    THEN [raised |-> "", splits |-> splits]
    ELSE [raised |-> "AssertionError", splits |-> <<>>]

\* mutant: each split is sliced from the start of the list, tokens[:i - prev]
split_mutant_slice_from_start(tokens, max_perms) ==
    LET RECURSIVE loop(_, _, _, _)
        loop(i, splits, prev_end_of_split, current_number_of_permutations) ==
            IF i = Len(tokens)
            THEN SplitReturn(tokens,
                     Append(splits, SubSeq(tokens, 1, Len(tokens) - prev_end_of_split)))
            ELSE LET n == estimate_number_of_permutations_in_nested_dict(tokens[i + 1])
                     cut == n * current_number_of_permutations > max_perms
                 IN IF n > max_perms
                    THEN [raised |-> "ValueError", splits |-> <<>>]
                    ELSE loop(i + 1,
                              IF cut THEN Append(splits, SubSeq(tokens, 1, i - prev_end_of_split))
                                     ELSE splits,
                              IF cut THEN i ELSE prev_end_of_split,
                              (IF cut THEN 1 ELSE current_number_of_permutations) * n)
    IN loop(0, <<>>, 0, 1)

\* mutant: the running product is compared before the new token is counted
split_mutant_late_cut(tokens, max_perms) ==
    LET RECURSIVE loop(_, _, _, _)
        loop(i, splits, prev_end_of_split, current_number_of_permutations) ==
            IF i = Len(tokens)
            THEN SplitReturn(tokens, Append(splits, SubSeq(tokens, prev_end_of_split + 1, Len(tokens))))
            ELSE LET n == estimate_number_of_permutations_in_nested_dict(tokens[i + 1])
                     cut == current_number_of_permutations > max_perms
                 IN IF n > max_perms
                    THEN [raised |-> "ValueError", splits |-> <<>>]
                    ELSE loop(i + 1,
                              IF cut THEN Append(splits, SubSeq(tokens, prev_end_of_split + 1, i))
                                     ELSE splits,
                              IF cut THEN i ELSE prev_end_of_split,
                              (IF cut THEN 1 ELSE current_number_of_permutations) * n)
    IN loop(0, <<>>, 0, 1)

\* mutant: the unsplittable-token check tests the running product, which has
\* just been reset, instead of the estimate of the token
split_mutant_check_running_product(tokens, max_perms) ==
    LET RECURSIVE loop(_, _, _, _)
        loop(i, splits, prev_end_of_split, current_number_of_permutations) ==
            IF i = Len(tokens)
            THEN SplitReturn(tokens, Append(splits, SubSeq(tokens, prev_end_of_split + 1, Len(tokens))))
            ELSE LET n == estimate_number_of_permutations_in_nested_dict(tokens[i + 1])
                     cut == n * current_number_of_permutations > max_perms
                     current == IF cut THEN 1 ELSE current_number_of_permutations
                 IN IF current > max_perms
                    THEN [raised |-> "ValueError", splits |-> <<>>]
                    ELSE loop(i + 1,
                              IF cut THEN Append(splits, SubSeq(tokens, prev_end_of_split + 1, i))
                                     ELSE splits,
                              IF cut THEN i ELSE prev_end_of_split,
                              current * n)
    IN loop(0, <<>>, 0, 1)

\* mutant: the running product is not reset at a boundary
split_mutant_no_reset(tokens, max_perms) ==
    LET RECURSIVE loop(_, _, _, _)
        loop(i, splits, prev_end_of_split, current_number_of_permutations) ==
            IF i = Len(tokens)
            THEN SplitReturn(tokens, Append(splits, SubSeq(tokens, prev_end_of_split + 1, Len(tokens))))
            ELSE LET n == estimate_number_of_permutations_in_nested_dict(tokens[i + 1])
                     cut == n * current_number_of_permutations > max_perms
                 IN IF n > max_perms
                    THEN [raised |-> "ValueError", splits |-> <<>>]
                    ELSE loop(i + 1,
                              IF cut THEN Append(splits, SubSeq(tokens, prev_end_of_split + 1, i))
                                     ELSE splits,
                              IF cut THEN i ELSE prev_end_of_split,
                              current_number_of_permutations * n)
    IN loop(0, <<>>, 0, 1)

split_tokens_to_reduce_number_of_permutations(tokens, max_perms) ==
    LET RECURSIVE loop(_, _, _, _)
        loop(i, splits, prev_end_of_split, current_number_of_permutations) ==
            IF i = Len(tokens)
            THEN SplitReturn(tokens, Append(splits, SubSeq(tokens, prev_end_of_split + 1, Len(tokens))))
            ELSE LET n == estimate_number_of_permutations_in_nested_dict(tokens[i + 1])
                     cut == n * current_number_of_permutations > max_perms
                 IN IF n > max_perms
                    THEN [raised |-> "ValueError", splits |-> <<>>]
                    ELSE loop(i + 1,
                              IF cut THEN Append(splits, SubSeq(tokens, prev_end_of_split + 1, i))
                                     ELSE splits,
                              IF cut THEN i ELSE prev_end_of_split,
                              (IF cut THEN 1 ELSE current_number_of_permutations) * n)
    IN loop(0, <<>>, 0, 1)

(***************************************************************************)
(* Normalizer._permute and Normalizer.generate_permutations.               *)
(* A serialization is a record: ser is the string the code builds, tree is *)
(* the ordered dictionary that string spells out (the verbalizer grammar   *)
(* of the model reads tree where the transducer reads ser).                *)
(***************************************************************************)
\* remove the i-th element
RemoveAt(s, i) == SubSeq(s, 1, i - 1) \o SubSeq(s, i + 1, Len(s))

\* concatenation of a sequence of sequences
RECURSIVE Flatten(_)
Flatten(ss) == IF ss = <<>> THEN <<>> ELSE Head(ss) \o Flatten(Tail(ss))

\* mutant: the orders are produced from the last position to the first
RECURSIVE itertools_permutations_mutant_last_first(_)
itertools_permutations_mutant_last_first(items) ==
    IF items = <<>> THEN << <<>> >>
    ELSE Flatten([i \in 1..Len(items) |->
             LET rest == itertools_permutations_mutant_last_first(
                             RemoveAt(items, Len(items) + 1 - i))
             IN [j \in 1..Len(rest) |-> <<items[Len(items) + 1 - i]>> \o rest[j]]])

\* itertools.permutations(items): lexicographic in the positions of items
RECURSIVE itertools_permutations(_)
itertools_permutations(items) ==
    IF items = <<>> THEN << <<>> >>
    ELSE Flatten([i \in 1..Len(items) |->
             LET rest == itertools_permutations(RemoveAt(items, i))
             IN [j \in 1..Len(rest) |-> <<items[i]>> \o rest[j]]])

\* ["".join(x) for x in itertools.product(subl, rec)] with the pieces around rec
ProductJoin(subl, rec, item) ==
    [j \in 1..(Len(subl) * Len(rec)) |->
        LET x == subl[((j - 1) \div Len(rec)) + 1]
            r == rec[((j - 1) % Len(rec)) + 1]
        IN [ser |-> x.ser \o " " \o item.k \o " { " \o r.ser \o " } ",
            tree |-> Append(x.tree, DictItem(item.k, r.tree))]]

\* mutant: preserve_order is ignored, every order of the items is produced
RECURSIVE permute_mutant_ignore_preserve_order(_)
permute_mutant_ignore_preserve_order(d) ==
    LET d_permutations == itertools_permutations(d)
        RECURSIVE inner(_, _, _)
        inner(perm, i, subl) ==
            IF i > Len(perm) THEN subl
            ELSE LET item == perm[i]
                 IN IF item.t = "str"
                    THEN inner(perm, i + 1,
                             [j \in 1..Len(subl) |->
                                 [ser |-> subl[j].ser \o item.k \o ": \"" \o Str(item.s) \o "\" ",
                                  tree |-> Append(subl[j].tree, item)]])
                    ELSE IF item.t = "dict"
                    THEN inner(perm, i + 1,
                             ProductJoin(subl, permute_mutant_ignore_preserve_order(item.d), item))
                    ELSE inner(perm, i + 1,
                             [j \in 1..Len(subl) |->
                                 [ser |-> subl[j].ser \o item.k \o ": true ",
                                  tree |-> Append(subl[j].tree, item)]])
    IN Flatten([p \in 1..Len(d_permutations) |->
           inner(d_permutations[p], 1, <<[ser |-> "", tree |-> <<>>]>>)])

RECURSIVE permute(_)
permute(d) ==
    LET d_permutations == IF HasKey(d, PRESERVE_ORDER_KEY) THEN <<d>> ELSE itertools_permutations(d)
        RECURSIVE inner(_, _, _)
        inner(perm, i, subl) ==
            IF i > Len(perm) THEN subl
            ELSE LET item == perm[i]
                 IN IF item.t = "str"
                    THEN inner(perm, i + 1,
                             [j \in 1..Len(subl) |->
                                 [ser |-> subl[j].ser \o item.k \o ": \"" \o Str(item.s) \o "\" ",
                                  tree |-> Append(subl[j].tree, item)]])
                    ELSE IF item.t = "dict"
                    THEN inner(perm, i + 1, ProductJoin(subl, permute(item.d), item))
                    ELSE inner(perm, i + 1,
                             [j \in 1..Len(subl) |->
                                 [ser |-> subl[j].ser \o item.k \o ": true ",
                                  tree |-> Append(subl[j].tree, item)]])
    IN Flatten([p \in 1..Len(d_permutations) |->
           inner(d_permutations[p], 1, <<[ser |-> "", tree |-> <<>>]>>)])

\* mutant: every token's options are walked twice
generate_permutations_mutant_yields_twice(tokens) ==
    LET RECURSIVE helper(_, _)
        helper(prefix, idx) ==
            IF idx = Len(tokens) THEN <<prefix>>
            ELSE LET token_options == permute(tokens[idx + 1]) \o permute(tokens[idx + 1])
                 IN Flatten([o \in 1..Len(token_options) |->
                        helper([ser |-> prefix.ser \o token_options[o].ser,
                                trees |-> Append(prefix.trees, token_options[o].tree)],
                               idx + 1)])
    IN helper([ser |-> "", trees |-> <<>>], 0)

\* generate_permutations: _helper("", tokens, 0); trees holds one tree per token
generate_permutations(tokens) ==
    LET RECURSIVE helper(_, _)
        helper(prefix, idx) ==
            IF idx = Len(tokens) THEN <<prefix>>
            ELSE LET token_options == permute(tokens[idx + 1])
                 IN Flatten([o \in 1..Len(token_options) |->
                        helper([ser |-> prefix.ser \o token_options[o].ser,
                                trees |-> Append(prefix.trees, token_options[o].tree)],
                               idx + 1)])
    IN helper([ser |-> "", trees |-> <<>>], 0)

(***************************************************************************)
(* The tagged serialization as the token parser reads it: a sequence of    *)
(* lexemes.  Lexemes spells out a dictionary with the pieces _permute      *)
(* writes (key: "value", key { ... }, key: true); parse is the recursive   *)
(* descent of TokenParser.parse over them.                                 *)
(***************************************************************************)
Lexeme(kind, name, value) == [kind |-> kind, name |-> name, value |-> value]

\* mutant: the items of a dictionary are written from the last to the first
RECURSIVE Lexemes_mutant_last_first(_)
Lexemes_mutant_last_first(d) ==
    Flatten([j \in 1..Len(d) |->
        LET i == Len(d) + 1 - j
        IN IF d[i].t = "str"
           THEN <<Lexeme("key", d[i].k, <<>>), Lexeme("string", "", d[i].s)>>
           ELSE IF d[i].t = "dict"
           THEN <<Lexeme("name", d[i].k, <<>>), Lexeme("{", "", <<>>)>>
                \o Lexemes_mutant_last_first(d[i].d) \o <<Lexeme("}", "", <<>>)>>
           ELSE <<Lexeme("key", d[i].k, <<>>), Lexeme("true", "", <<>>)>>])

RECURSIVE Lexemes(_)
Lexemes(d) ==
    Flatten([i \in 1..Len(d) |->
        IF d[i].t = "str"
        THEN <<Lexeme("key", d[i].k, <<>>), Lexeme("string", "", d[i].s)>>
        ELSE IF d[i].t = "dict"
        THEN <<Lexeme("name", d[i].k, <<>>), Lexeme("{", "", <<>>)>>
             \o Lexemes(d[i].d) \o <<Lexeme("}", "", <<>>)>>
        ELSE <<Lexeme("key", d[i].k, <<>>), Lexeme("true", "", <<>>)>>])

\* the lexemes of a list of tokens, one after the other
LexemesOfTokens(tokens) == Flatten([i \in 1..Len(tokens) |-> Lexemes(tokens[i])])

\* the items read up to the closing brace or the end of the text, and the
\* lexemes left; ok is FALSE when the text is not a serialization
RECURSIVE ParseItems(_, _)
ParseItems(text, items) ==
    IF text = <<>> \/ Head(text).kind = "}"
    THEN [ok |-> TRUE, items |-> items, rest |-> text]
    ELSE IF Len(text) < 2 THEN [ok |-> FALSE, items |-> items, rest |-> text]
    ELSE IF Head(text).kind = "key" /\ text[2].kind = "string"
    THEN ParseItems(DropFirst(text, 2), Append(items, StrItem(Head(text).name, text[2].value)))
    ELSE IF Head(text).kind = "key" /\ text[2].kind = "true"
    THEN ParseItems(DropFirst(text, 2), Append(items, BoolItem(Head(text).name)))
    ELSE IF Head(text).kind = "name" /\ text[2].kind = "{"
    THEN LET inner == ParseItems(DropFirst(text, 2), <<>>)
         IN IF inner.ok /\ inner.rest # <<>>
            THEN ParseItems(Tail(inner.rest), Append(items, DictItem(Head(text).name, inner.items)))
            ELSE [ok |-> FALSE, items |-> items, rest |-> text]
    ELSE [ok |-> FALSE, items |-> items, rest |-> text]

\* TokenParser.parse(): the list of the top-level dictionaries, one per
\* tokens { ... } entry; <<>> stands for a text that does not parse
parse(text) ==
    LET r == ParseItems(text, <<>>)
    IN IF r.ok /\ r.rest = <<>> THEN [i \in 1..Len(r.items) |-> <<r.items[i]>>] ELSE <<>>

(***************************************************************************)
(* Lattices: a lattice is the set of its accepting paths, each with its    *)
(* total weight; the empty set is the lattice with no state.               *)
(***************************************************************************)
num_states_is_zero(lattice) == lattice = {}

\* mutant: a path of maximum weight is taken
shortestpath_mutant_heaviest(lattice) == CHOOSE p \in lattice : \A q \in lattice : p.w >= q.w

\* pynini.shortestpath(lattice, nshortest=1, unique=True)
shortestpath(lattice) == CHOOSE p \in lattice : \A q \in lattice : p.w <= q.w

(***************************************************************************)
(* The tagger: ClassifyFst.  Each class grammar is added at its priority   *)
(* weight, a punctuation mark at 2.1 and the catch-all word class at 100.  *)
(***************************************************************************)
TokTelephone == Token("telephone", <<StrItem("number_part", <<"7">>)>>)
TokMoney ==
    Token("money", <<StrItem("currency_maj", <<"r">>), StrItem("integer_part", <<"5">>)>>)
TokDateDMY ==
    Token("date", <<StrItem("day", <<"1">>), StrItem("month", <<"2">>),
                    StrItem("year", <<"3">>)>>)
TokDateMDY ==
    Token("date", <<StrItem("month", <<"1">>), StrItem("day", <<"2">>),
                    StrItem("year", <<"3">>), BoolItem(PRESERVE_ORDER_KEY)>>)
TokDateMD ==
    Token("date", <<StrItem("month", <<"1">>), StrItem("day", <<"9">>),
                    BoolItem(PRESERVE_ORDER_KEY)>>)
Decimal == DictItem("decimal", <<StrItem("integer_part", <<"1">>),
                                  StrItem("fractional_part", <<"5">>)>>)
TokMeasureUnitFirst ==
    Token("measure", <<StrItem("units", <<"g">>), Decimal, BoolItem(PRESERVE_ORDER_KEY)>>)
TokMeasure == Token("measure", <<Decimal, StrItem("units", <<"g">>)>>)

WeightTelephone == 500
WeightDate == 1090
WeightMoney == 1100
WeightMeasure == 1100
WeightPunct == 2100
WeightWord == 100000
WeightDateDMY == -1
WeightDateYMD == -1

\* the readings the class grammars and the punctuation graph give to a
\* one-character span; punct marks a reading of the punctuation graph
Reading(w, tok) == [w |-> w, tok |-> tok, punct |-> FALSE]
PunctReading(mark) == [w |-> WeightPunct, tok |-> WordToken(mark), punct |-> TRUE]

SpanReadings(c) ==
    CASE c = "7" -> {Reading(WeightTelephone, TokTelephone)}
      [] c = "$" -> {Reading(WeightMoney, TokMoney)}
      [] c = "d" -> {Reading(WeightDate + WeightDateDMY, TokDateDMY),
                     Reading(WeightDate, TokDateMDY)}
      [] c = "D" -> {Reading(WeightDate, TokDateMD)}
      [] c = "k" -> {Reading(WeightMeasure, TokMeasureUnitFirst)}
      [] c = "m" -> {Reading(WeightMeasure, TokMeasure)}
      [] c = "[" -> {PunctReading(<<c>>)}
      [] OTHER -> {}

\* the readings of a run of non-blank characters: those of the class grammars
\* and, unless a character is outside the word class, the word reading
WordReadings(word) ==
    (IF Len(word) = 1 THEN SpanReadings(word[1]) ELSE {})
    \cup (IF \E i \in 1..Len(word) : word[i] = "?" THEN {}
          ELSE {Reading(WeightWord, WordToken(word))})

\* the runs of non-blank characters of a sentence
RECURSIVE SplitWords(_, _)
SplitWords(s, word) ==
    IF s = <<>> THEN (IF word = <<>> THEN <<>> ELSE <<word>>)
    ELSE IF IsSpace(Head(s))
         THEN (IF word = <<>> THEN <<>> ELSE <<word>>) \o SplitWords(Tail(s), <<>>)
         ELSE SplitWords(Tail(s), Append(word, Head(s)))

\* all taggings of a sentence: one reading per word, weights added; token
\* tells whether a reading other than a punctuation mark was taken
RECURSIVE SentenceLattice(_)
SentenceLattice(words) ==
    IF words = <<>> THEN {[w |-> 0, toks |-> <<>>, token |-> FALSE]}
    ELSE {[w |-> r.w + rest.w, toks |-> <<r.tok>> \o rest.toks,
           token |-> ~r.punct \/ rest.token] :
              r \in WordReadings(Head(words)), rest \in SentenceLattice(Tail(words))}

\* lattice = text @ self.tagger.fst: a sentence is punctuation marks around
\* at least one token
find_tags(text) ==
    LET words == SplitWords(Compile(text), <<>>)
    IN {[w |-> p.w, toks |-> p.toks] : p \in {q \in SentenceLattice(words) : q.token}}

(***************************************************************************)
(* The verbalizer: per-class grammars, each accepting fixed field orders.  *)
(***************************************************************************)
Values(fields) == [i \in 1..Len(fields) |-> fields[i].s]
AllStr(fields) == \A i \in 1..Len(fields) : fields[i].t = "str"

\* the fields without a trailing "preserve_order: true"
WithoutPreserveOrder(fields) ==
    IF fields # <<>> /\ fields[Len(fields)].t = "bool"
       /\ fields[Len(fields)].k = PRESERVE_ORDER_KEY
    THEN SubSeq(fields, 1, Len(fields) - 1)
    ELSE fields

Accept(out) == {[w |-> 0, out |-> out]}

DateVerbalizer(fields) ==
    LET f == WithoutPreserveOrder(fields)
    IN IF AllStr(f) /\ Keys(f) \in {<<"day", "month">>, <<"month", "day">>,
                                    <<"day", "month", "year">>, <<"month", "day", "year">>,
                                    <<"year", "month", "day">>, <<"era">>}
       THEN Accept(JoinSpace(Values(f)))
       ELSE {}

MoneyVerbalizer(fields) ==
    IF AllStr(fields) /\ Keys(fields) = <<"integer_part", "currency_maj">>
    THEN Accept(JoinSpace(Values(fields)))
    ELSE {}

TelephoneVerbalizer(fields) ==
    IF AllStr(fields) /\ Keys(fields) \in {<<"number_part">>, <<"country_code", "number_part">>,
                                           <<"number_part", "extension">>,
                                           <<"country_code", "number_part", "extension">>}
    THEN Accept(JoinSpace(Values(fields)))
    ELSE {}

\* the number of a measure: cardinal { integer } or decimal { integer_part fractional_part }
MeasureNumber(item) ==
    IF item.t = "dict" /\ item.k = "cardinal" /\ AllStr(item.d) /\ Keys(item.d) = <<"integer">>
    THEN {item.d[1].s}
    ELSE IF item.t = "dict" /\ item.k = "decimal" /\ AllStr(item.d)
            /\ Keys(item.d) = <<"integer_part", "fractional_part">>
    THEN {item.d[1].s \o <<" ", ".", " ">> \o item.d[2].s}
    ELSE {}

MeasureVerbalizer(fields) ==
    LET f == WithoutPreserveOrder(fields)
    IN IF Len(f) = 2 /\ MeasureNumber(f[1]) # {} /\ f[2].t = "str" /\ f[2].k = "units"
       THEN {[w |-> 0, out |-> n \o <<" ">> \o f[2].s] : n \in MeasureNumber(f[1])}
       ELSE {}

\* the value of the field key
FieldValue(fields, key) == fields[CHOOSE i \in 1..Len(fields) : fields[i].k = key].s

\* mutant: the three fields are accepted in any order and spoken in the order
\* they are written in
TimeVerbalizer_mutant_any_order(fields) ==
    IF AllStr(fields) /\ Len(fields) = 3
       /\ {fields[i].k : i \in 1..3} = {"hours", "minutes", "seconds"}
    THEN Accept(fields[1].s \o <<" ", "baje", " ">> \o fields[2].s \o <<" ", "minute", " ">>
                \o fields[3].s \o <<" ", "second">>)
    ELSE {}

\* graph_hms | graph_hm | graph_h: hours, then minutes, then seconds
TimeVerbalizer(fields) ==
    IF AllStr(fields) /\ Keys(fields) = <<"hours", "minutes", "seconds">>
    THEN Accept(fields[1].s \o <<" ", "baje", " ">> \o fields[2].s \o <<" ", "minute", " ">>
                \o fields[3].s \o <<" ", "second">>)
    ELSE IF AllStr(fields) /\ Keys(fields) = <<"hours", "minutes">>
    THEN Accept(fields[1].s \o <<" ", "baje", " ">> \o fields[2].s \o <<" ", "minute">>)
    ELSE IF AllStr(fields) /\ Keys(fields) = <<"hours">>
    THEN Accept(fields[1].s \o <<" ", "ta">>)
    ELSE {}

\* the word class: tokens { name: "..." }
WordVerbalizer(item) == Accept(item.s)

\* one token of the serialization: tokens { class { fields } } or tokens { name: "" }
VerbalizeToken(tree) ==
    IF Len(tree) # 1 \/ tree[1].k # "tokens" \/ tree[1].t # "dict" \/ Len(tree[1].d) # 1
    THEN {}
    ELSE LET item == tree[1].d[1]
         IN IF item.t = "str" /\ item.k = "name" THEN WordVerbalizer(item)
            ELSE IF item.t # "dict" THEN {}
            ELSE IF item.k = "date" THEN DateVerbalizer(item.d)
            ELSE IF item.k = "money" THEN MoneyVerbalizer(item.d)
            ELSE IF item.k = "measure" THEN MeasureVerbalizer(item.d)
            ELSE IF item.k = "telephone" THEN TelephoneVerbalizer(item.d)
            ELSE IF item.k = "time" THEN TimeVerbalizer(item.d)
            ELSE {}

\* lattice = tagged_text @ self.verbalizer.fst: every token must be accepted
RECURSIVE VerbalizeTokens(_)
VerbalizeTokens(trees) ==
    IF trees = <<>> THEN {[w |-> 0, outs |-> <<>>]}
    ELSE {[w |-> p.w + rest.w, outs |-> <<p.out>> \o rest.outs] :
              p \in VerbalizeToken(Head(trees)), rest \in VerbalizeTokens(Tail(trees))}

find_verbalizer(tagged_text) ==
    {[w |-> p.w, out |-> JoinSpace(p.outs)] : p \in VerbalizeTokens(tagged_text.trees)}

\* top_rewrite(string, fst) with the identity post-processing graph: the
\* string is compiled and its one path is read back
top_rewrite(s) == Compile(s)

(***************************************************************************)
(* State.                                                                  *)
(*   max_number_of_permutations_per_split, post_processor, parser: fields  *)
(*     of the Normalizer object; parser is the tagged text the one         *)
(*     TokenParser of the object was last called with.                     *)
(*   call[c]: the locals and the position of the normalize() call that     *)
(*     thread c runs, with its outcome ret.                                *)
(*   nl: the locals and the position of a normalize_list() call.           *)
(***************************************************************************)
VARIABLES max_number_of_permutations_per_split, post_processor, parser, call, nl,
          far_files, construction

vars == <<max_number_of_permutations_per_split, post_processor, parser, call, nl,
          far_files, construction>>

\* Normalizer.post_process; post_processor is TRUE when self.post_processor
\* is not None
post_process(normalized_text) ==
    LET stripped == Strip(normalized_text)
        escaped == Escape(stripped)
    IN IF stripped = <<>> THEN stripped
       ELSE IF post_processor THEN top_rewrite(escaped)
       ELSE escaped

Calls == {1, 2}

NoLattice == [none |-> TRUE, paths |-> {}]
NoReturn == [kind |-> "none", value |-> <<>>, exc |-> "", at |-> ""]

IdleCall ==
    [pc |-> "idle", arg |-> <<>>, original_text |-> <<>>, text |-> <<>>,
     tagged_text |-> <<>>, tokens |-> <<>>, split_called |-> FALSE, split_tokens |-> <<>>,
     output |-> <<>>, s_idx |-> 0, tags_reordered |-> <<>>, t_idx |-> 0,
     verbalizer_lattice |-> NoLattice, submitted |-> <<>>, chunk_log |-> <<>>,
     fallback |-> FALSE, ret |-> NoReturn]

NewCall(text) == [IdleCall EXCEPT !.pc = "start", !.arg = text]

IdleList ==
    [pc |-> "idle", texts |-> <<>>, batch_size |-> 1, batch |-> 0, i |-> 0, j |-> 0,
     normalized_lines |-> <<>>, normalized_texts |-> <<>>, ret |-> NoReturn]

\* the call returns value v
Returned(c, v, fallback) ==
    [call[c] EXCEPT !.pc = "done", !.fallback = fallback,
                    !.ret = [kind |-> "return", value |-> v, exc |-> "", at |-> ""]]

\* the call lets exception exc, raised at stage at, reach its caller
Raised(c, exc, at) ==
    [call[c] EXCEPT !.pc = "raised",
                    !.ret = [kind |-> "raise", value |-> <<>>, exc |-> exc, at |-> at]]

\* mutant: the handler of the chunk loop catches ValueError only
ExceptException_mutant_value_error_only(exc) == exc = "ValueError"

\* "except Exception" of the chunk loop: every exception the loop can raise
ExceptException(exc) == exc \in {"FstOpError", "ValueError"}

\* mutant: the loop never breaks and keeps the lattice of the last variant
BreakNever(lattice) == FALSE

\* "if verbalizer_lattice.num_states() != 0: break"
BreakOnLattice(lattice) == ~num_states_is_zero(lattice)

(***************************************************************************)
(* Normalizer.normalize, one action per stage.  punct_pre_process and      *)
(* punct_post_process have their default value False.                      *)
(***************************************************************************)
\* lines 305-318: strip, empty check, escape
Begin(c) ==
    /\ call[c].pc = "start"
    /\ LET stripped == Strip(call[c].arg)
       IN call' = [call EXCEPT ![c] =
              IF stripped = <<>>
              THEN [Returned(c, stripped, FALSE) EXCEPT !.original_text = call[c].arg,
                                                        !.text = stripped]
              ELSE [call[c] EXCEPT !.pc = "find_tags", !.original_text = call[c].arg,
                                   !.text = Escape(stripped)]]
    /\ UNCHANGED <<max_number_of_permutations_per_split, post_processor, parser, nl,
                 far_files, construction>>

\* lines 319-321: find_tags and select_tag; .string() of an empty lattice raises
FindTags(c) ==
    /\ call[c].pc = "find_tags"
    /\ LET tagged_lattice == find_tags(call[c].text)
       IN call' = [call EXCEPT ![c] =
              IF num_states_is_zero(tagged_lattice)
              THEN Raised(c, "FstOpError", "select_tag")
              ELSE [call[c] EXCEPT !.pc = "parser_call",
                                   !.tagged_text = shortestpath(tagged_lattice).toks]]
    /\ UNCHANGED <<max_number_of_permutations_per_split, post_processor, parser, nl,
                 far_files, construction>>

\* line 323: self.parser(tagged_text)
ParserCall(c) ==
    /\ call[c].pc = "parser_call"
    /\ parser' = LexemesOfTokens(call[c].tagged_text)
    /\ call' = [call EXCEPT ![c].pc = "parse"]
    /\ UNCHANGED <<max_number_of_permutations_per_split, post_processor, nl,
                 far_files, construction>>

\* line 324: tokens = self.parser.parse()
ParserParse(c) ==
    /\ call[c].pc = "parse"
    /\ call' = [call EXCEPT ![c].pc = "split", ![c].tokens = parse(parser)]
    /\ UNCHANGED <<max_number_of_permutations_per_split, post_processor, parser, nl,
                 far_files, construction>>

\* mutant: a failure of the split is answered with the fallback return
Split_mutant_falls_back(c) ==
    /\ call[c].pc = "split"
    /\ LET r == split_tokens_to_reduce_number_of_permutations(
                    call[c].tokens, max_number_of_permutations_per_split)
       IN call' = [call EXCEPT ![c] =
              IF r.raised # ""
              THEN [Returned(c, call[c].text, TRUE) EXCEPT !.split_called = TRUE]
              ELSE [call[c] EXCEPT !.pc = "chunk", !.split_called = TRUE,
                                   !.split_tokens = r.splits, !.output = <<>>, !.s_idx = 0]]
    /\ UNCHANGED <<max_number_of_permutations_per_split, post_processor, parser, nl,
                 far_files, construction>>

\* lines 325-326: the split is outside the try block
Split(c) ==
    /\ call[c].pc = "split"
    /\ LET r == split_tokens_to_reduce_number_of_permutations(
                    call[c].tokens, max_number_of_permutations_per_split)
       IN call' = [call EXCEPT ![c] =
              IF r.raised # ""
              THEN [Raised(c, r.raised, "split") EXCEPT !.split_called = TRUE]
              ELSE [call[c] EXCEPT !.pc = "chunk", !.split_called = TRUE,
                                   !.split_tokens = r.splits, !.output = <<>>, !.s_idx = 0]]
    /\ UNCHANGED <<max_number_of_permutations_per_split, post_processor, parser, nl,
                 far_files, construction>>

\* mutant: the chunks are taken from the last one to the first
NextChunk_mutant_last_first(c) ==
    /\ call[c].pc = "chunk"
    /\ call[c].s_idx < Len(call[c].split_tokens)
    /\ call' = [call EXCEPT ![c].pc = "variant",
                            ![c].tags_reordered =
                                generate_permutations(
                                    call[c].split_tokens[Len(call[c].split_tokens) - call[c].s_idx]),
                            ![c].t_idx = 0,
                            ![c].verbalizer_lattice = NoLattice,
                            ![c].submitted = <<>>]
    /\ UNCHANGED <<max_number_of_permutations_per_split, post_processor, parser, nl,
                 far_files, construction>>

\* lines 327-330: next s of split_tokens, its generator of serializations
NextChunk(c) ==
    /\ call[c].pc = "chunk"
    /\ call[c].s_idx < Len(call[c].split_tokens)
    /\ call' = [call EXCEPT ![c].pc = "variant",
                            ![c].tags_reordered =
                                generate_permutations(call[c].split_tokens[call[c].s_idx + 1]),
                            ![c].t_idx = 0,
                            ![c].verbalizer_lattice = NoLattice,
                            ![c].submitted = <<>>]
    /\ UNCHANGED <<max_number_of_permutations_per_split, post_processor, parser, nl,
                 far_files, construction>>

\* lines 331-336: one iteration of "for tagged_text in tags_reordered"
TryVariant(c) ==
    /\ call[c].pc = "variant"
    /\ call[c].t_idx < Len(call[c].tags_reordered)
    /\ LET tagged_text == call[c].tags_reordered[call[c].t_idx + 1]
           lattice == find_verbalizer(tagged_text)
           last == call[c].t_idx + 1 = Len(call[c].tags_reordered)
       IN call' = [call EXCEPT ![c].t_idx = @ + 1,
                               ![c].verbalizer_lattice = [none |-> FALSE, paths |-> lattice],
                               ![c].submitted = Append(@, tagged_text.ser),
                               ![c].pc = IF BreakOnLattice(lattice) \/ last
                                         THEN "chunk_end" ELSE "variant"]
    /\ UNCHANGED <<max_number_of_permutations_per_split, post_processor, parser, nl,
                 far_files, construction>>

\* lines 337-343: the chunk's outcome; select_verbalizer raises on an empty
\* lattice and the handler returns text
EndChunk(c) ==
    /\ call[c].pc = "chunk_end"
    /\ LET lattice == call[c].verbalizer_lattice
       IN call' = [call EXCEPT ![c] =
              IF lattice.none
              THEN Returned(c, call[c].text, TRUE)
              ELSE IF num_states_is_zero(lattice.paths)
              THEN (IF ExceptException("FstOpError")
                    THEN Returned(c, call[c].text, TRUE)
                    ELSE Raised(c, "FstOpError", "select_verbalizer"))
              ELSE LET piece == shortestpath(lattice.paths).out
                   IN [call[c] EXCEPT !.pc = "chunk",
                                      !.output = @ \o <<" ">> \o piece,
                                      !.s_idx = @ + 1,
                                      !.chunk_log = Append(@, [submitted |-> call[c].submitted,
                                                               piece |-> piece])]]
    /\ UNCHANGED <<max_number_of_permutations_per_split, post_processor, parser, nl,
                 far_files, construction>>

\* lines 344-353: collapse spaces, post-process, return
\* mutant: the call drops the post-processor once it has used it
Finish_mutant_drops_post_processor(c) ==
    /\ call[c].pc = "chunk"
    /\ call[c].s_idx = Len(call[c].split_tokens)
    /\ LET output == SpaceDupSub(DropFirst(call[c].output, 1))
           processed == IF post_processor THEN post_process(output) ELSE output
       IN call' = [call EXCEPT ![c] =
              [Returned(c, processed, FALSE) EXCEPT !.output = processed]]
    /\ post_processor' = FALSE
    /\ UNCHANGED <<max_number_of_permutations_per_split, parser, nl, far_files, construction>>

Finish(c) ==
    /\ call[c].pc = "chunk"
    /\ call[c].s_idx = Len(call[c].split_tokens)
    /\ LET output == SpaceDupSub(DropFirst(call[c].output, 1))
           processed == IF post_processor THEN post_process(output) ELSE output
       IN call' = [call EXCEPT ![c] =
              [Returned(c, processed, FALSE) EXCEPT !.output = processed]]
    /\ UNCHANGED <<max_number_of_permutations_per_split, post_processor, parser, nl,
                 far_files, construction>>

NormalizeStep(c) ==
    \/ Begin(c)
    \/ FindTags(c)
    \/ ParserCall(c)
    \/ ParserParse(c)
    \/ Split(c)
    \/ NextChunk(c)
    \/ TryVariant(c)
    \/ EndChunk(c)
    \/ Finish(c)

(***************************************************************************)
(* Normalizer.normalize run from its first line to its last with no other  *)
(* call in between: the outcome normalize_list gets for a text.            *)
(***************************************************************************)
\* the first serialization of the enumeration with a non-empty lattice, 0 if
\* there is none
RECURSIVE FirstAccepted(_, _)
FirstAccepted(tags_reordered, j) ==
    IF j > Len(tags_reordered) THEN 0
    ELSE IF ~num_states_is_zero(find_verbalizer(tags_reordered[j])) THEN j
    ELSE FirstAccepted(tags_reordered, j + 1)

\* the chunk loop: the output built from the chunks, or the fallback
RECURSIVE VerbalizeSplits(_, _, _)
VerbalizeSplits(split_tokens, k, output) ==
    IF k > Len(split_tokens) THEN [fallback |-> FALSE, output |-> output]
    ELSE LET tags_reordered == generate_permutations(split_tokens[k])
             j == FirstAccepted(tags_reordered, 1)
         IN IF j = 0 THEN [fallback |-> TRUE, output |-> <<>>]
            ELSE VerbalizeSplits(split_tokens, k + 1,
                     output \o <<" ">> \o shortestpath(find_verbalizer(tags_reordered[j])).out)

normalize(arg) ==
    LET stripped == Strip(arg)
        text == Escape(stripped)
        tagged_lattice == find_tags(text)
        tokens == parse(LexemesOfTokens(shortestpath(tagged_lattice).toks))
        r == split_tokens_to_reduce_number_of_permutations(
                 tokens, max_number_of_permutations_per_split)
        v == VerbalizeSplits(r.splits, 1, <<>>)
        output == SpaceDupSub(DropFirst(v.output, 1))
    IN IF stripped = <<>>
       THEN [kind |-> "return", value |-> stripped, exc |-> "", at |-> ""]
       ELSE IF num_states_is_zero(tagged_lattice)
       THEN [kind |-> "raise", value |-> <<>>, exc |-> "FstOpError", at |-> "select_tag"]
       ELSE IF r.raised # ""
       THEN [kind |-> "raise", value |-> <<>>, exc |-> r.raised, at |-> "split"]
       ELSE IF v.fallback
       THEN [kind |-> "return", value |-> text, exc |-> "", at |-> ""]
       ELSE [kind |-> "return",
             value |-> IF post_processor THEN post_process(output) ELSE output,
             exc |-> "", at |-> ""]

(***************************************************************************)
(* Normalizer.normalize_list with n_jobs = 1: the batches are processed    *)
(* one after the other, each text of a batch by one normalize() call.      *)
(***************************************************************************)
Min(a, b) == IF a <= b THEN a ELSE b

\* "batch = min(len(texts), batch_size)"; range(0, len(texts), 0) raises
ListBegin ==
    /\ nl.pc = "start"
    /\ LET batch == Min(Len(nl.texts), nl.batch_size)
       IN nl' = IF batch = 0
                THEN [nl EXCEPT !.pc = "raised", !.batch = batch,
                                !.ret = [kind |-> "raise", value |-> <<>>,
                                         exc |-> "ValueError", at |-> "range"]]
                ELSE [nl EXCEPT !.pc = "batch", !.batch = batch, !.i = 0,
                                !.normalized_texts = <<>>]
    /\ UNCHANGED <<max_number_of_permutations_per_split, post_processor, parser, call,
                 far_files, construction>>

\* the next i of range(0, len(texts), batch): _process_batch(texts[i : i + batch])
ListStartBatch ==
    /\ nl.pc = "batch"
    /\ nl.i < Len(nl.texts)
    /\ nl' = [nl EXCEPT !.pc = "text", !.j = nl.i, !.normalized_lines = <<>>]
    /\ UNCHANGED <<max_number_of_permutations_per_split, post_processor, parser, call,
                 far_files, construction>>

\* self.normalize(text) for the next text of the batch; an exception leaves
\* _process_batch and is raised again by "except BaseException as e: raise e"
ListNormalizeText ==
    /\ nl.pc = "text"
    /\ nl.j < Min(nl.i + nl.batch, Len(nl.texts))
    /\ LET r == normalize(nl.texts[nl.j + 1])
       IN nl' = IF r.kind = "raise"
                THEN [nl EXCEPT !.pc = "raised", !.ret = r]
                ELSE [nl EXCEPT !.j = @ + 1, !.normalized_lines = Append(@, r.value)]
    /\ UNCHANGED <<max_number_of_permutations_per_split, post_processor, parser, call,
                 far_files, construction>>

\* _process_batch returns normalized_lines
ListEndBatch ==
    /\ nl.pc = "text"
    /\ nl.j = Min(nl.i + nl.batch, Len(nl.texts))
    /\ nl' = [nl EXCEPT !.pc = "batch", !.i = @ + nl.batch,
                        !.normalized_texts = Append(@, nl.normalized_lines)]
    /\ UNCHANGED <<max_number_of_permutations_per_split, post_processor, parser, call,
                 far_files, construction>>

\* "normalized_texts = list(itertools.chain(*normalized_texts))"
ListReturn ==
    /\ nl.pc = "batch"
    /\ nl.i >= Len(nl.texts)
    /\ nl' = [nl EXCEPT !.pc = "done",
                        !.ret = [kind |-> "return", value |-> Flatten(nl.normalized_texts),
                                 exc |-> "", at |-> ""]]
    /\ UNCHANGED <<max_number_of_permutations_per_split, post_processor, parser, call,
                 far_files, construction>>

(***************************************************************************)
(* The compiled-grammar cache of the grammar constructors                  *)
(* (hi/kn taggers/tokenize_and_classify.py ClassifyFst.__init__,           *)
(* mai/verbalizers/post_processing.py PostProcessingFst.__init__).         *)
(* far_files is the file system: the .far files that exist, each with the  *)
(* grammar stored in it.  A path is the sequence of its parts; a whitelist *)
(* argument that is None or "" is the empty path, which is all the code    *)
(* tells apart ("if whitelist").  A grammar is named by the arguments it   *)
(* was built from.                                                         *)
(***************************************************************************)
\* Python's None as a cache_dir; the str "None" is another value
None == "<None>"

CacheDirs == {None, "None", "cache"}
Whitelists == {<<>>, <<"a", "w.tsv">>, <<"b", "w.tsv">>, <<"a", "v.tsv">>}
ClassifierLanguages == {"hi", "kn"}
InputCases == {"lower_cased", "cased"}

NoFarFiles == {}

\* f"{deterministic}" of a bool
FormatBool(b) == IF b THEN "True" ELSE "False"

os_path_basename(path) == IF path = <<>> THEN "" ELSE path[Len(path)]

os_path_exists(files, far_file) == \E f \in files : f.name = far_file

\* pynini.Far(far_file, mode="r")[...]: the grammar stored in the file
Far(files, far_file) == (CHOOSE f \in files : f.name = far_file).fst

\* generator_main(far_file, {...: fst}): the file is created or replaced
generator_main(files, far_file, fst) ==
    {f \in files : f.name # far_file} \cup {[name |-> far_file, fst |-> fst]}

\* the grammar a constructor builds from its arguments
graph(class, lang, deterministic, input_case, whitelist) ==
    [class |-> class, lang |-> lang, deterministic |-> deterministic,
     input_case |-> input_case, whitelist |-> whitelist]

\* far_file of ClassifyFst.__init__; <<>> is None
classify_far_file(lang, deterministic, input_case, cache_dir, whitelist) ==
    IF cache_dir # None /\ cache_dir # "None"
    THEN LET whitelist_file == IF whitelist # <<>> THEN os_path_basename(whitelist) ELSE ""
         IN <<cache_dir, lang, "_tn_", FormatBool(deterministic), "_deterministic_",
              input_case, "_", whitelist_file, "_tokenize.far">>
    ELSE <<>>

\* far_file of PostProcessingFst.__init__
post_processing_far_file(cache_dir) ==
    IF cache_dir # None /\ cache_dir # "None"
    THEN <<cache_dir, "mai_tn_post_processing.far">>
    ELSE <<>>

\* mutant: an existing file is restored even when overwrite_cache is set
restore_mutant_ignores_overwrite_cache(files, overwrite_cache, far_file) ==
    far_file # <<>> /\ os_path_exists(files, far_file)

\* "if not overwrite_cache and far_file and os.path.exists(far_file)"
restore(files, overwrite_cache, far_file) ==
    ~overwrite_cache /\ far_file # <<>> /\ os_path_exists(files, far_file)

NoConstruction ==
    [n |-> 0, class |-> "", lang |-> "", deterministic |-> TRUE, input_case |-> "",
     cache_dir |-> None, overwrite_cache |-> FALSE, whitelist |-> <<>>,
     far_file |-> <<>>, fst |-> graph("", "", TRUE, "", <<>>),
     restored |-> FALSE, created |-> FALSE, saved |-> FALSE]

\* one run of a grammar constructor: the grammar is restored from far_file,
\* or created and, with a far_file, saved
Construct(class, lang, deterministic, input_case, cache_dir, overwrite_cache, whitelist, far_file) ==
    LET restoring == restore(far_files, overwrite_cache, far_file)
        fst == IF restoring THEN Far(far_files, far_file)
               ELSE graph(class, lang, deterministic, input_case, whitelist)
        saving == ~restoring /\ far_file # <<>>
    IN /\ construction' =
              [n |-> construction.n + 1, class |-> class, lang |-> lang,
               deterministic |-> deterministic, input_case |-> input_case,
               cache_dir |-> cache_dir, overwrite_cache |-> overwrite_cache,
               whitelist |-> whitelist, far_file |-> far_file, fst |-> fst,
               restored |-> restoring, created |-> ~restoring, saved |-> saving]
       /\ far_files' = IF saving THEN generator_main(far_files, far_file, fst) ELSE far_files
       /\ UNCHANGED <<max_number_of_permutations_per_split, post_processor, parser, call, nl>>

ClassifyFst(lang, input_case, deterministic, cache_dir, overwrite_cache, whitelist) ==
    /\ construction.n < MaxConstructions
    /\ Construct("ClassifyFst", lang, deterministic, input_case, cache_dir, overwrite_cache,
                 whitelist,
                 classify_far_file(lang, deterministic, input_case, cache_dir, whitelist))

PostProcessingFst(cache_dir, overwrite_cache) ==
    /\ construction.n < MaxConstructions
    /\ Construct("PostProcessingFst", "mai", TRUE, "", cache_dir, overwrite_cache, <<>>,
                 post_processing_far_file(cache_dir))

InitCache ==
    /\ far_files = NoFarFiles
    /\ construction = NoConstruction
    /\ max_number_of_permutations_per_split = DefaultMaxPermutations
    /\ post_processor = FALSE
    /\ parser = <<>>
    /\ call = [c \in Calls |-> IdleCall]
    /\ nl = IdleList

NextCache ==
    \/ \E lang \in ClassifierLanguages, input_case \in InputCases, deterministic \in BOOLEAN,
          cache_dir \in CacheDirs, overwrite_cache \in BOOLEAN, whitelist \in Whitelists :
           ClassifyFst(lang, input_case, deterministic, cache_dir, overwrite_cache, whitelist)
    \/ \E cache_dir \in CacheDirs, overwrite_cache \in BOOLEAN :
           PostProcessingFst(cache_dir, overwrite_cache)

SpecCache == InitCache /\ [][NextCache]_vars

(***************************************************************************)
(* Normalizer.__init__ (normalize.py).  construction is the constructor's  *)
(* position, its arguments, the grammar modules imported and the grammars  *)
(* built so far.  assertions tells whether the interpreter runs assert     *)
(* statements (it does not under python -O).  The post_processing module   *)
(* exists for "mai"; for another language it may or may not.               *)
(***************************************************************************)
SUPPORTED_LANGUAGES ==
    {"en", "hi", "bn", "kn", "ta", "te", "mr", "gu", "ml", "ne",
     "sa", "pa", "as", "brx", "doi", "bho", "mag", "mai", "hne"}

Languages == {"hi", "mai", "xx"}
InputCaseArguments == InputCases \cup {"upper"}

NormalizerRaised(exc) == [construction EXCEPT !.pc = "raised", !.exc = exc]

\* assert input_case in ["lower_cased", "cased"]
AssertInputCase ==
    /\ construction.pc = "assert"
    /\ construction' =
           IF construction.assertions /\ construction.input_case \notin InputCases
           THEN NormalizerRaised("AssertionError")
           ELSE [construction EXCEPT !.pc = "lang"]
    /\ UNCHANGED <<max_number_of_permutations_per_split, post_processor, parser, call, nl,
                   far_files>>

\* if lang not in SUPPORTED_LANGUAGES: raise NotImplementedError
ValidateLanguage ==
    /\ construction.pc = "lang"
    /\ construction' =
           IF construction.lang \notin SUPPORTED_LANGUAGES
           THEN NormalizerRaised("NotImplementedError")
           ELSE [construction EXCEPT !.pc = "import_tagger"]
    /\ UNCHANGED <<max_number_of_permutations_per_split, post_processor, parser, call, nl,
                   far_files>>

ImportTagger ==
    /\ construction.pc = "import_tagger"
    /\ construction' = [construction EXCEPT
                            !.pc = "import_verbalizer",
                            !.imported = @ \cup {"taggers.tokenize_and_classify"}]
    /\ UNCHANGED <<max_number_of_permutations_per_split, post_processor, parser, call, nl,
                   far_files>>

ImportVerbalizer ==
    /\ construction.pc = "import_verbalizer"
    /\ construction' = [construction EXCEPT
                            !.pc = "post_processor",
                            !.imported = @ \cup {"verbalizers.verbalize_final"}]
    /\ UNCHANGED <<max_number_of_permutations_per_split, post_processor, parser, call, nl,
                   far_files>>

\* if post_process: try: import post_processing, PostProcessingFst(...)
\* except (ImportError, AttributeError): pass
LoadPostProcessor ==
    /\ construction.pc = "post_processor"
    /\ \E available \in (IF construction.lang = "mai" THEN {TRUE} ELSE BOOLEAN) :
           IF construction.post_process /\ available
           THEN /\ construction' = [construction EXCEPT
                                        !.pc = "tagger",
                                        !.imported = @ \cup {"verbalizers.post_processing"},
                                        !.built = @ \cup {"PostProcessingFst"}]
                /\ post_processor' = TRUE
           ELSE /\ construction' = [construction EXCEPT !.pc = "tagger"]
                /\ post_processor' = FALSE
    /\ UNCHANGED <<max_number_of_permutations_per_split, parser, call, nl, far_files>>

BuildTagger ==
    /\ construction.pc = "tagger"
    /\ construction' = [construction EXCEPT !.pc = "verbalizer",
                                            !.built = @ \cup {"ClassifyFst"}]
    /\ UNCHANGED <<max_number_of_permutations_per_split, post_processor, parser, call, nl,
                   far_files>>

BuildVerbalizer ==
    /\ construction.pc = "verbalizer"
    /\ construction' = [construction EXCEPT !.pc = "done",
                                            !.built = @ \cup {"VerbalizeFinalFst"}]
    /\ UNCHANGED <<max_number_of_permutations_per_split, post_processor, parser, call, nl,
                   far_files>>

InitNormalizer ==
    /\ far_files = NoFarFiles
    /\ \E input_case \in InputCaseArguments, lang \in Languages, post_process_arg \in BOOLEAN,
          assertions \in BOOLEAN :
           construction = [pc |-> "assert", input_case |-> input_case, lang |-> lang,
                           post_process |-> post_process_arg, assertions |-> assertions,
                           imported |-> {}, built |-> {}, exc |-> ""]
    /\ max_number_of_permutations_per_split = DefaultMaxPermutations
    /\ post_processor = FALSE
    /\ parser = <<>>
    /\ call = [c \in Calls |-> IdleCall]
    /\ nl = IdleList

NextNormalizer ==
    \/ AssertInputCase
    \/ ValidateLanguage
    \/ ImportTagger
    \/ ImportVerbalizer
    \/ LoadPostProcessor
    \/ BuildTagger
    \/ BuildVerbalizer

SpecNormalizer == InitNormalizer /\ [][NextNormalizer]_vars

(***************************************************************************)
(* The weighted union of the classes in ClassifyFst.__init__ of the four   *)
(* classifiers of src (hi, kn, ta, te).  construction is the constructor's *)
(* position: the classes added to classify so far, each with the weight    *)
(* pynutil.add_weight gives it, and the weight of the punctuation token.   *)
(* Weights are the source's weights multiplied by 1000.                    *)
(***************************************************************************)
WeightedClass(class, w) == [class |-> class, w |-> w]

\* classify = add_weight(..., w) | add_weight(..., w) | ..., in source order
classify_union(lang) ==
    IF lang = "hi"
    THEN <<WeightedClass("whitelist", 1010), WeightedClass("time", 1100),
           WeightedClass("date", 1090), WeightedClass("decimal", 1100),
           WeightedClass("measure", 1100), WeightedClass("cardinal", 1100),
           WeightedClass("ordinal", 1100), WeightedClass("money", 1100),
           WeightedClass("telephone", 500), WeightedClass("electronic", 1110),
           WeightedClass("fraction", 1100), WeightedClass("math", 1100),
           WeightedClass("scientific", 1080), WeightedClass("power", 1090),
           WeightedClass("range", 1100), WeightedClass("serial", 1120),
           WeightedClass("range_money", 1100)>>
    ELSE IF lang = "kn"
    THEN <<WeightedClass("whitelist", 500), WeightedClass("telephone", 600),
           WeightedClass("time", 700), WeightedClass("date", 800),
           WeightedClass("decimal", 850), WeightedClass("scientific", 860),
           WeightedClass("fraction", 850), WeightedClass("money", 850),
           WeightedClass("measure", 850), WeightedClass("ordinal", 900),
           WeightedClass("cardinal", 950), WeightedClass("power", 970),
           WeightedClass("math", 1000), WeightedClass("serial", 1100)>>
    ELSE IF lang = "ta"
    THEN <<WeightedClass("whitelist", 1010), WeightedClass("telephone", 500),
           WeightedClass("measure", 1030), WeightedClass("date", 1040),
           WeightedClass("time", 1050), WeightedClass("fraction", 1060),
           WeightedClass("decimal", 1080), WeightedClass("cardinal", 1100),
           WeightedClass("money", 1100), WeightedClass("ordinal", 1100),
           WeightedClass("scientific", 1170), WeightedClass("power", 1180),
           WeightedClass("math", 1200)>>
    ELSE <<WeightedClass("whitelist", 500), WeightedClass("telephone", 300),
           WeightedClass("time", 700), WeightedClass("date", 800),
           WeightedClass("decimal", 850), WeightedClass("fraction", 850),
           WeightedClass("money", 850), WeightedClass("measure", 850),
           WeightedClass("ordinal", 900), WeightedClass("cardinal", 950),
           WeightedClass("math", 1000), WeightedClass("scientific", 1080),
           WeightedClass("power", 1090)>>

\* add_weight(punct_graph, weight=2.1) and add_weight(word_graph, 100)
punct_weight(lang) == IF lang \in {"hi", "kn", "ta", "te"} THEN 2100 ELSE 0
word_weight(lang) == IF lang \in {"hi", "kn", "ta", "te"} THEN 100000 ELSE 0

\* the hi classifier alone has the branch "if not deterministic"
has_abbreviation_branch(lang) == lang = "hi"

ClassifierLanguagesOfSrc == {"hi", "kn", "ta", "te"}

\* the next operand of the union
AddWeight ==
    /\ construction.pc = "classify"
    /\ Len(construction.classify) < Len(classify_union(construction.lang))
    /\ construction' = [construction EXCEPT
           !.classify = Append(@, classify_union(construction.lang)[Len(@) + 1])]
    /\ UNCHANGED <<max_number_of_permutations_per_split, post_processor, parser, call, nl,
                   far_files>>

\* mutant: the abbreviation class is added in deterministic mode too
AddAbbreviation_mutant_always ==
    /\ construction.pc = "classify"
    /\ Len(construction.classify) = Len(classify_union(construction.lang))
    /\ construction' = [construction EXCEPT
           !.pc = "punct",
           !.classify = IF has_abbreviation_branch(construction.lang)
                        THEN Append(@, WeightedClass("abbreviation", 100000))
                        ELSE @]
    /\ UNCHANGED <<max_number_of_permutations_per_split, post_processor, parser, call, nl,
                   far_files>>

\* if not deterministic: classify |= add_weight(abbreviation_graph, 100)
AddAbbreviation ==
    /\ construction.pc = "classify"
    /\ Len(construction.classify) = Len(classify_union(construction.lang))
    /\ construction' = [construction EXCEPT
           !.pc = "punct",
           !.classify = IF has_abbreviation_branch(construction.lang)
                           /\ ~construction.deterministic
                        THEN Append(@, WeightedClass("abbreviation", 100000))
                        ELSE @]
    /\ UNCHANGED <<max_number_of_permutations_per_split, post_processor, parser, call, nl,
                   far_files>>

\* punct = insert("tokens { ") + add_weight(punct_graph, weight=2.1) + insert(" }")
AddPunct ==
    /\ construction.pc = "punct"
    /\ construction' = [construction EXCEPT !.pc = "word",
                                            !.punct = punct_weight(construction.lang)]
    /\ UNCHANGED <<max_number_of_permutations_per_split, post_processor, parser, call, nl,
                   far_files>>

\* classify = pynini.union(classify, add_weight(word_graph, 100))
AddWord ==
    /\ construction.pc = "word"
    /\ construction' = [construction EXCEPT
           !.pc = "done",
           !.classify = Append(@, WeightedClass("word", word_weight(construction.lang)))]
    /\ UNCHANGED <<max_number_of_permutations_per_split, post_processor, parser, call, nl,
                   far_files>>

InitClassify ==
    /\ far_files = NoFarFiles
    /\ \E lang \in ClassifierLanguagesOfSrc, deterministic \in BOOLEAN :
           construction = [pc |-> "classify", lang |-> lang, deterministic |-> deterministic,
                           classify |-> <<>>, punct |-> 0]
    /\ max_number_of_permutations_per_split = DefaultMaxPermutations
    /\ post_processor = FALSE
    /\ parser = <<>>
    /\ call = [c \in Calls |-> IdleCall]
    /\ nl = IdleList

NextClassify ==
    \/ AddWeight
    \/ AddAbbreviation
    \/ AddPunct
    \/ AddWord

SpecClassify == InitClassify /\ [][NextClassify]_vars

(***************************************************************************)
(* The Kannada telephone and cardinal taggers on a span of digits.  A      *)
(* span is a sequence of digits; the digit "6" may start a mobile and a    *)
(* landline number, "1" may start neither, "0" is the zero.  Weights are   *)
(* in thousandths.                                                         *)
(***************************************************************************)
MaxDigits == 10

KnDigits == {"0", "1", "6"}
KN_ZERO_DIGIT == {"0"}
KN_MOBILE_START_DIGITS == {"6"}
KN_LANDLINE_START_DIGITS == {"6"}

DigitSpans == SeqsUpTo(KnDigits, MaxDigits) \ {<<>>}

\* the weight add_weight(..., w) gives the class in the union of the classifier
PriorityWeight(lang, class) ==
    LET u == classify_union(lang)
    IN  u[CHOOSE i \in 1..Len(u) : u[i].class = class].w

\* leading_zero = closure(cross(KN_ZERO_DIGIT, ...) + insert_space, 0, 1)
leading_zero(s) == IF s # <<>> /\ s[1] \in KN_ZERO_DIGIT THEN {s, Tail(s)} ELSE {s}

\* number_part = mobile_start_digit + closure(num_token, 9), after an optional zero
generate_mobile(s) ==
    \E t \in leading_zero(s) : Len(t) >= 10 /\ t[1] \in KN_MOBILE_START_DIGITS

\* std code of std_length digits after an optional zero, then the start digit
\* and 9 - std_length digits
get_landline(std_length, s) ==
    \E t \in leading_zero(s) :
        /\ Len(t) = 10
        /\ t[std_length + 1] \in KN_LANDLINE_START_DIGITS

generate_landline(s) == \E std_length \in 2..7 : get_landline(std_length, s)

\* closure(num_token + insert_space, 4)
generate_credit(s) == Len(s) >= 4

\* closure(num_token + insert_space, 6)
generate_pincode(s) == Len(s) >= 6

KnReading(class, form, w) == [class |-> class, form |-> form, w |-> w]

\* graph = add_weight(mobile_number, 0.7) | add_weight(landline, 0.8)
\*       | add_weight(credit_card, 0.9) | add_weight(pincode, 1)
TelephoneFst(s) ==
    (IF generate_mobile(s) THEN {KnReading("telephone", "mobile", 700)} ELSE {})
    \cup (IF generate_landline(s) THEN {KnReading("telephone", "landline", 800)} ELSE {})
    \cup (IF generate_credit(s) THEN {KnReading("telephone", "credit_card", 900)} ELSE {})
    \cup (IF generate_pincode(s) THEN {KnReading("telephone", "pincode", 1000)} ELSE {})

RECURSIVE LeadingZeros(_)
LeadingZeros(s) == IF s = <<>> \/ s[1] # "0" THEN 0 ELSE 1 + LeadingZeros(Tail(s))

\* the graph of a number of Len(s) >= 3 digits without a leading zero: a head
\* (digit, or teens_and_ties at weight -0.1), then create_graph_suffix (zeros
\* only, each deleted at -0.1) or create_larger_number_graph (some zeros, each
\* deleted at -0.1, then the smaller graph; digit and teens_ties weigh nothing)
RECURSIVE create_larger_number_graph(_)
create_larger_number_graph(s) ==
    LET n == Len(s)
        h == IF n \in {5, 7, 9} THEN 2 ELSE 1
        head == IF h = 2 THEN -100 ELSE 0
        tail == SubSeq(s, h + 1, n)
        zeros_counts == LeadingZeros(tail)
        sub == SubSeq(tail, zeros_counts + 1, Len(tail))
    IN  head + (-100) * zeros_counts
        + (IF Len(sub) <= 2 THEN 0 ELSE create_larger_number_graph(sub))

\* the weights of the paths of kannada_final_graph that accept the span
kannada_final_graph(s) ==
    IF Len(s) = 1 THEN {0}
    ELSE IF Len(s) = 2 THEN (IF s[1] = "0" THEN {500} ELSE {-100})
    ELSE IF Len(s) <= 9 /\ s[1] # "0" THEN {create_larger_number_graph(s)}
    ELSE {}

\* final_graph: the graph itself, and the graph behind delete_commas at -0.1
\* (delete_commas accepts a span without commas too)
CardinalFst(s) ==
    {KnReading("cardinal", "plain", w) : w \in kannada_final_graph(s)}
    \cup {KnReading("cardinal", "commas", w - 100) : w \in kannada_final_graph(s)}

\* classify = add_weight(telephone_graph, 0.6) | ... | add_weight(cardinal_graph, 0.95)
KnClassify(s) ==
    {[r EXCEPT !.w = @ + PriorityWeight("kn", r.class)] : r \in TelephoneFst(s) \cup CardinalFst(s)}

NoKnReading == KnReading("", "", 0)

\* the lattice of the taggings of the span as one token
KnCompose ==
    /\ construction.pc = "span"
    /\ construction' = [construction EXCEPT !.pc = "lattice",
                                            !.lattice = KnClassify(construction.span)]
    /\ UNCHANGED <<max_number_of_permutations_per_split, post_processor, parser, call, nl,
                   far_files>>

\* pynini.shortestpath(lattice, nshortest=1, unique=True)
KnShortestPath ==
    /\ construction.pc = "lattice"
    /\ construction.lattice # {}
    /\ \E p \in construction.lattice :
           /\ \A q \in construction.lattice : p.w <= q.w
           /\ construction' = [construction EXCEPT !.pc = "tagged", !.tagged = p]
    /\ UNCHANGED <<max_number_of_permutations_per_split, post_processor, parser, call, nl,
                   far_files>>

InitKnTagger ==
    /\ far_files = NoFarFiles
    /\ \E s \in DigitSpans :
           construction = [pc |-> "span", span |-> s, lattice |-> {}, tagged |-> NoKnReading]
    /\ max_number_of_permutations_per_split = DefaultMaxPermutations
    /\ post_processor = FALSE
    /\ parser = <<>>
    /\ call = [c \in Calls |-> IdleCall]
    /\ nl = IdleList

NextKnTagger ==
    \/ KnCompose
    \/ KnShortestPath

SpecKnTagger == InitKnTagger /\ [][NextKnTagger]_vars

(***************************************************************************)
(* The Tamil date tagger on an input A-B-C of three digit fields.  A field *)
(* is a sequence of the digits "0", "1" and "3", which is enough for valid *)
(* and invalid days (1..31) and months (1..12), with and without a leading *)
(* zero, and for years of two and of four digits.  Weights are in          *)
(* thousandths.                                                            *)
(***************************************************************************)
DateDigits == {"0", "1", "3"}
DateFieldLens == {1, 2, 4}
DateFields == {s \in SeqsUpTo(DateDigits, 4) : Len(s) \in DateFieldLens}

DigitValue(d) == IF d = "0" THEN 0 ELSE IF d = "1" THEN 1 ELSE 3

RECURSIVE NumberValue(_)
NumberValue(s) ==
    IF s = <<>> THEN 0
    ELSE 10 * NumberValue(SubSeq(s, 1, Len(s) - 1)) + DigitValue(s[Len(s)])

\* days_graph: one or two digits that days.tsv maps (1 to 31, 01 to 09)
days(s) == Len(s) \in 1..2 /\ NumberValue(s) \in 1..31

\* months_graph: one or two digits that months.tsv maps (1 to 12, 01 to 09)
months(s) == Len(s) \in 1..2 /\ NumberValue(s) \in 1..12

\* tamil_final_graph on two digits: teens_and_ties at -0.1, or
\* graph_leading_zero at 0.5; on four digits: graph_thousands, the digit, the
\* zeros deleted at -0.1 each, then digit, teens_ties or graph_all_hundreds
tamil_final_graph(s) ==
    IF Len(s) = 2 THEN (IF s[1] = "0" THEN {500} ELSE {-100})
    ELSE IF Len(s) = 4 /\ s[1] # "0" THEN {(-100) * LeadingZeros(Tail(s))}
    ELSE {}

\* year_graph | year_2digit_graph: four digits or two digits through the cardinal
year_component(s) == IF Len(s) \in {2, 4} THEN tamil_final_graph(s) ELSE {}

DateReading(form, w) == [form |-> form, w |-> w]

\* day, separator, month, separator, year
graph_dd_mm_yyyy(a, b, c) ==
    IF days(a) /\ months(b) THEN {DateReading("dd_mm_yyyy", w) : w \in year_component(c)} ELSE {}

\* month, separator, day, separator, year, preserve_order
graph_mm_dd_yyyy(a, b, c) ==
    IF months(a) /\ days(b) THEN {DateReading("mm_dd_yyyy", w) : w \in year_component(c)} ELSE {}

\* year, separator, month, separator, day
graph_yyyy_mm_dd(a, b, c) ==
    IF months(b) /\ days(c) THEN {DateReading("yyyy_mm_dd", w) : w \in year_component(a)} ELSE {}

\* final_graph = add_weight(graph_dd_mm_yyyy, -0.001) | add_weight(graph_yyyy_mm_dd, -0.001)
\*             | graph_mm_dd_yyyy | ...  (the other operands take no input of three fields)
DateFst(a, b, c) ==
    {[r EXCEPT !.w = @ + WeightDateDMY] : r \in graph_dd_mm_yyyy(a, b, c)}
    \cup {[r EXCEPT !.w = @ + WeightDateYMD] : r \in graph_yyyy_mm_dd(a, b, c)}
    \cup graph_mm_dd_yyyy(a, b, c)

NoDateReading == DateReading("", 0)

\* the lattice of the date taggings of the input
DateCompose ==
    /\ construction.pc = "input"
    /\ construction' = [construction EXCEPT
           !.pc = "lattice",
           !.lattice = DateFst(construction.a, construction.b, construction.c)]
    /\ UNCHANGED <<max_number_of_permutations_per_split, post_processor, parser, call, nl,
                   far_files>>

\* pynini.shortestpath(lattice, nshortest=1, unique=True): one of the lightest
DateShortestPath ==
    /\ construction.pc = "lattice"
    /\ construction.lattice # {}
    /\ \E p \in construction.lattice :
           /\ \A q \in construction.lattice : p.w <= q.w
           /\ construction' = [construction EXCEPT !.pc = "tagged", !.tagged = p]
    /\ UNCHANGED <<max_number_of_permutations_per_split, post_processor, parser, call, nl,
                   far_files>>

InitDate ==
    /\ far_files = NoFarFiles
    /\ \E a \in DateFields, b \in DateFields, c \in DateFields :
           /\ Len(b) <= 2
           /\ construction = [pc |-> "input", a |-> a, b |-> b, c |-> c, lattice |-> {},
                              tagged |-> NoDateReading]
    /\ max_number_of_permutations_per_split = DefaultMaxPermutations
    /\ post_processor = FALSE
    /\ parser = <<>>
    /\ call = [c \in Calls |-> IdleCall]
    /\ nl = IdleList

NextDate ==
    \/ DateCompose
    \/ DateShortestPath

SpecDate == InitDate /\ [][NextDate]_vars

\* the values of max_number_of_permutations_per_split a Normalizer is built
\* with: the small ones, at which the split cuts and fails, and the default
Bounds == (1..MaxM) \cup {DefaultMaxPermutations}

(***************************************************************************)
(* One normalize() call on a fresh Normalizer.                             *)
(***************************************************************************)
Init ==
    /\ far_files = NoFarFiles
    /\ construction = NoConstruction
    /\ max_number_of_permutations_per_split \in Bounds
    /\ post_processor \in BOOLEAN
    /\ parser = <<>>
    /\ \E text \in Texts : call = [c \in Calls |-> IF c = 1 THEN NewCall(text) ELSE IdleCall]
    /\ nl = IdleList

Next == NormalizeStep(1)

Spec == Init /\ [][Next]_vars

(***************************************************************************)
(* One normalize_list() call on a fresh Normalizer.                        *)
(***************************************************************************)
\* the texts of a list: the empty text and the texts of one word
ListTexts == {JoinSpace(ws) : ws \in SeqsUpTo(Words, 1)}

InitList ==
    /\ far_files = NoFarFiles
    /\ construction = NoConstruction
    /\ max_number_of_permutations_per_split \in Bounds
    /\ post_processor \in BOOLEAN
    /\ parser = <<>>
    /\ call = [c \in Calls |-> IdleCall]
    /\ \E texts \in SeqsUpTo(ListTexts, MaxListLen), batch_size \in 1..MaxBatch :
           nl = [IdleList EXCEPT !.pc = "start", !.texts = texts, !.batch_size = batch_size]

NextList ==
    \/ ListBegin
    \/ ListStartBatch
    \/ ListNormalizeText
    \/ ListEndBatch
    \/ ListReturn

SpecList == InitList /\ [][NextList]_vars

(***************************************************************************)
(* Two threads, each running one normalize() call on the same Normalizer.  *)
(***************************************************************************)
InitConc ==
    /\ far_files = NoFarFiles
    /\ construction = NoConstruction
    /\ max_number_of_permutations_per_split \in Bounds
    /\ post_processor \in BOOLEAN
    /\ parser = <<>>
    /\ \E texts \in [Calls -> ListTexts] : call = [c \in Calls |-> NewCall(texts[c])]
    /\ nl = IdleList

NextConc == \E c \in Calls : NormalizeStep(c)

SpecConc == InitConc /\ [][NextConc]_vars

(***************************************************************************)
(* Normalizer.post_process called twice in a row on a string, the second   *)
(* time on what the first call returned.                                   *)
(***************************************************************************)
\* the characters of the strings: a blank, a letter and the characters
\* pynini.escape rewrites
PostChars == {" ", "a", "[", "\\"}

PostProcessOnce(c) ==
    /\ call[c].pc = "post_process"
    /\ call' = [call EXCEPT ![c].pc = "post_process_again",
                            ![c].output = post_process(call[c].arg)]
    /\ UNCHANGED <<max_number_of_permutations_per_split, post_processor, parser, nl,
                 far_files, construction>>

PostProcessAgain(c) ==
    /\ call[c].pc = "post_process_again"
    /\ call' = [call EXCEPT ![c] = Returned(c, post_process(call[c].output), FALSE)]
    /\ UNCHANGED <<max_number_of_permutations_per_split, post_processor, parser, nl,
                 far_files, construction>>

InitPost ==
    /\ far_files = NoFarFiles
    /\ construction = NoConstruction
    /\ max_number_of_permutations_per_split = DefaultMaxPermutations
    /\ post_processor \in BOOLEAN
    /\ parser = <<>>
    /\ \E s \in SeqsUpTo(PostChars, MaxPostLen) :
           call = [c \in Calls |-> IF c = 1 THEN [IdleCall EXCEPT !.pc = "post_process", !.arg = s]
                                   ELSE IdleCall]
    /\ nl = IdleList

NextPost ==
    \/ PostProcessOnce(1)
    \/ PostProcessAgain(1)

SpecPost == InitPost /\ [][NextPost]_vars

(***************************************************************************)
(* The joiner-hyphen rewrite ClassifyFst puts before its graph.  The       *)
(* characters of its inputs stand for classes of characters:               *)
(*   "1" an ASCII digit            "n" a digit of the language's script    *)
(*   "a" a letter of the script    "-" the hyphen                          *)
(*   "z" any other character (a Latin letter)                              *)
(***************************************************************************)
RewriteChars == {"1", "n", "a", "-", "z"}

NEMO_DIGIT == {"1"}
NEMO_HI_DIGIT == {"n"}

\* union(*[chr(i) for i in range(0x0900, 0x0980)]): the whole block of the
\* script, which holds its letters and its digits (U+0966 to U+096F)
hi_block == {"a", "n"}

left_ctx == NEMO_DIGIT \cup NEMO_HI_DIGIT
right_ctx == hi_block

\* cdrewrite(cross("-", " "), left_ctx, right_ctx, NEMO_SIGMA)
joiner_hyphen_to_space(s) ==
    [i \in 1..Len(s) |->
        IF s[i] = "-" /\ i > 1 /\ i < Len(s) /\ s[i - 1] \in left_ctx /\ s[i + 1] \in right_ctx
        THEN " " ELSE s[i]]

JoinerHyphenRewrite(c) ==
    /\ call[c].pc = "rewrite"
    /\ call' = [call EXCEPT ![c] = Returned(c, joiner_hyphen_to_space(call[c].arg), FALSE)]
    /\ UNCHANGED <<max_number_of_permutations_per_split, post_processor, parser, nl,
                 far_files, construction>>

InitRewrite ==
    /\ far_files = NoFarFiles
    /\ construction = NoConstruction
    /\ max_number_of_permutations_per_split = DefaultMaxPermutations
    /\ post_processor \in BOOLEAN
    /\ parser = <<>>
    /\ \E s \in SeqsUpTo(RewriteChars, MaxRewriteLen) :
           call = [c \in Calls |-> IF c = 1 THEN [IdleCall EXCEPT !.pc = "rewrite", !.arg = s]
                                   ELSE IdleCall]
    /\ nl = IdleList

NextRewrite == JoinerHyphenRewrite(1)

SpecRewrite == InitRewrite /\ [][NextRewrite]_vars

(***************************************************************************)
(* One normalize() call from the parser on, for a written time the tagger  *)
(* has classified as one time token of hours, minutes and seconds, the     *)
(* three fields in any order in the tagged text.                           *)
(***************************************************************************)
TimeValues == {<<"1">>, <<"2">>}

\* the time tokens: the three fields in each of their six orders
TimeTokens ==
    {Token("time", fields) :
        fields \in UNION {{order[j] : j \in 1..Len(order)} :
            order \in {itertools_permutations(<<StrItem("hours", h), StrItem("minutes", m),
                                                StrItem("seconds", sec)>>) :
                           h \in TimeValues, m \in TimeValues, sec \in TimeValues}}}

InitTime ==
    /\ far_files = NoFarFiles
    /\ construction = NoConstruction
    /\ max_number_of_permutations_per_split \in Bounds
    /\ post_processor \in BOOLEAN
    /\ \E token \in TimeTokens :
           /\ parser = LexemesOfTokens(<<token>>)
           /\ call = [c \in Calls |->
                         IF c = 1
                         THEN [IdleCall EXCEPT !.pc = "parse", !.arg = <<"t">>,
                                               !.original_text = <<"t">>, !.text = <<"t">>,
                                               !.tagged_text = <<token>>]
                         ELSE IdleCall]
    /\ nl = IdleList

NextTime ==
    \/ ParserParse(1)
    \/ Split(1)
    \/ NextChunk(1)
    \/ TryVariant(1)
    \/ EndChunk(1)
    \/ Finish(1)

SpecTime == InitTime /\ [][NextTime]_vars

(***************************************************************************)
(* One normalize() call from the parser on, for a tagged text of up to     *)
(* MaxTokens time tokens of hours and minutes.  The value of a field is    *)
(* any non-empty text without a quote (NEMO_NOT_QUOTE), blanks included,   *)
(* so that a chunk output can begin with a blank or hold two.  With the    *)
(* bound factorial(2) every token is a chunk of its own.                   *)
(***************************************************************************)
HourValues == SeqsUpTo({" ", "1"}, 2) \ {<<>>}

HourTokens ==
    {Token("time", <<StrItem("hours", v), StrItem("minutes", <<"2">>)>>) : v \in HourValues}

InitAssemble ==
    /\ far_files = NoFarFiles
    /\ construction = NoConstruction
    /\ max_number_of_permutations_per_split \in {factorial(2), DefaultMaxPermutations}
    /\ post_processor \in BOOLEAN
    /\ \E tokens \in SeqsUpTo(HourTokens, MaxTokens) \ {<<>>} :
           /\ parser = LexemesOfTokens(tokens)
           /\ call = [c \in Calls |->
                         IF c = 1
                         THEN [IdleCall EXCEPT !.pc = "parse", !.arg = <<"t">>,
                                               !.original_text = <<"t">>, !.text = <<"t">>,
                                               !.tagged_text = tokens]
                         ELSE IdleCall]
    /\ nl = IdleList

NextAssemble ==
    \/ ParserParse(1)
    \/ Split(1)
    \/ NextChunk(1)
    \/ TryVariant(1)
    \/ EndChunk(1)
    \/ Finish(1)

SpecAssemble == InitAssemble /\ [][NextAssemble]_vars

(***************************************************************************)
(* The split step of normalize() on its own, for parsed token sequences of *)
(* up to MaxSplitLen tokens of estimate 1, 2 and 6: long enough for a      *)
(* boundary to be followed by two more tokens.                             *)
(***************************************************************************)
SplitTokens == {TokTelephone, TokMoney, TokDateDMY}

InitSplit ==
    /\ far_files = NoFarFiles
    /\ construction = NoConstruction
    /\ max_number_of_permutations_per_split \in Bounds
    /\ post_processor \in BOOLEAN
    /\ \E tokens \in SeqsUpTo(SplitTokens, MaxSplitLen) \ {<<>>} :
           /\ parser = LexemesOfTokens(tokens)
           /\ call = [c \in Calls |->
                         IF c = 1
                         THEN [IdleCall EXCEPT !.pc = "split", !.arg = <<"t">>,
                                               !.original_text = <<"t">>, !.text = <<"t">>,
                                               !.tagged_text = tokens, !.tokens = tokens]
                         ELSE IdleCall]
    /\ nl = IdleList

NextSplit == Split(1)

SpecSplit == InitSplit /\ [][NextSplit]_vars

(***************************************************************************)
(* Vocabulary of the properties.                                           *)
(***************************************************************************)
\* the split of call c has returned its list of chunks
SplitReturned(c) ==
    call[c].split_called /\ ~(call[c].ret.kind = "raise" /\ call[c].ret.at = "split")

Estimate(token) == estimate_number_of_permutations_in_nested_dict(token)

RECURSIVE ChunkProduct(_)
ChunkProduct(chunk) ==
    IF chunk = <<>> THEN 1 ELSE Estimate(Head(chunk)) * ChunkProduct(Tail(chunk))

\* the dictionary of fields of a token, <<>> for a word token
ClassFields(token) == IF token[1].d[1].t = "dict" THEN token[1].d[1].d ELSE <<>>
IsPreserveOrderToken(token) == HasKey(ClassFields(token), PRESERVE_ORDER_KEY)

\* the chunk call c is enumerating or has just enumerated
InChunk(c) == call[c].pc \in {"variant", "chunk_end"}
CurrentChunk(c) == call[c].split_tokens[call[c].s_idx + 1]

(***************************************************************************)
(* C1: whenever the split returns, the chunks concatenated in order are    *)
(* the token sequence it was given: same tokens, same order, none          *)
(* duplicated, none omitted.                                               *)
(***************************************************************************)
C1_SplitConcatenation ==
    \A c \in Calls : SplitReturned(c) => Flatten(call[c].split_tokens) = call[c].tokens

\* a split into two chunks has returned
C1_Witness ==
    \E c \in Calls : SplitReturned(c) /\ Len(call[c].split_tokens) >= 2

(***************************************************************************)
(* C2: whenever the split returns, the product of the estimates of the     *)
(* tokens of each chunk is at most max_number_of_permutations_per_split.   *)
(***************************************************************************)
C2_ChunkProductBounded ==
    \A c \in Calls : SplitReturned(c) =>
        \A k \in 1..Len(call[c].split_tokens) :
            ChunkProduct(call[c].split_tokens[k]) <= max_number_of_permutations_per_split

\* a returned chunk of two tokens whose product reaches the bound
C2_Witness ==
    \E c \in Calls : SplitReturned(c) /\
        \E k \in 1..Len(call[c].split_tokens) :
            /\ Len(call[c].split_tokens[k]) >= 2
            /\ ChunkProduct(call[c].split_tokens[k]) = max_number_of_permutations_per_split
            /\ max_number_of_permutations_per_split > 1

(***************************************************************************)
(* C3: if the estimate of any one token exceeds the bound, the split       *)
(* raises and returns no chunk list, wherever the token sits.              *)
(***************************************************************************)
C3_OversizedTokenRaises ==
    \A c \in Calls :
        (call[c].split_called
         /\ \E i \in 1..Len(call[c].tokens) :
                Estimate(call[c].tokens[i]) > max_number_of_permutations_per_split)
        => (call[c].pc = "raised" /\ call[c].ret.exc = "ValueError"
            /\ call[c].ret.at = "split" /\ call[c].split_tokens = <<>>)

\* the split raised for a token that is not the first, after a token within
\* the bound
C3_Witness ==
    \E c \in Calls :
        /\ call[c].pc = "raised" /\ call[c].ret.at = "split"
        /\ Len(call[c].tokens) >= 2
        /\ Estimate(call[c].tokens[1]) <= max_number_of_permutations_per_split
        /\ Estimate(call[c].tokens[2]) > max_number_of_permutations_per_split

(***************************************************************************)
(* C4: normalize() never lets an exception reach its caller: whatever the  *)
(* outcome of a stage, the call ends by returning a string.                *)
(***************************************************************************)
C4_NeverRaises == \A c \in Calls : call[c].ret.kind # "raise"

(***************************************************************************)
(* C5: when normalize() cannot produce a normalization its return value is *)
(* exactly the string it was passed, as it was before stripping and        *)
(* escaping.                                                               *)
(***************************************************************************)
C5_FallbackReturnsArgument ==
    \A c \in Calls : (call[c].pc = "done" /\ call[c].fallback)
                        => call[c].ret.value = call[c].arg

(***************************************************************************)
(* C6: the estimate of a token is factorial(k) times the product of the    *)
(* estimates of its nested children, k the number of its fields; a token   *)
(* with preserve_order has estimate 1.                                     *)
(* Stated as written (C6_EstimateWithPreserveOrder) and as amended: the    *)
(* flag does not lower the estimate, it counts as one more field.          *)
(***************************************************************************)
RECURSIVE PermOfSpec(_)
PermOfSpec(d) ==
    IF HasKey(d, PRESERVE_ORDER_KEY) THEN 1
    ELSE LET nested == {i \in 1..Len(d) : d[i].t = "dict"}
             RECURSIVE prod(_)
             prod(S) == IF S = {} THEN 1
                        ELSE LET i == CHOOSE x \in S : TRUE
                             IN PermOfSpec(d[i].d) * prod(S \ {i})
         IN factorial(Len(d)) * prod(nested)

RECURSIVE PermAllKeys(_)
PermAllKeys(d) ==
    LET nested == {i \in 1..Len(d) : d[i].t = "dict"}
        RECURSIVE prod(_)
        prod(S) == IF S = {} THEN 1
                   ELSE LET i == CHOOSE x \in S : TRUE
                        IN PermAllKeys(d[i].d) * prod(S \ {i})
    IN factorial(Cardinality({d[i].k : i \in 1..Len(d)})) * prod(nested)

C6_EstimateWithPreserveOrder ==
    \A c \in Calls : call[c].split_called =>
        \A i \in 1..Len(call[c].tokens) :
            Estimate(call[c].tokens[i]) = PermOfSpec(call[c].tokens[i])

\* C6 amended: factorial of the number of keys, preserve_order included,
\* times the product of the estimates of the nested dictionaries
C6_EstimateCountsEveryKey ==
    \A c \in Calls : call[c].split_called =>
        \A i \in 1..Len(call[c].tokens) :
            Estimate(call[c].tokens[i]) = PermAllKeys(call[c].tokens[i])

\* the split has estimated a preserve_order token with a nested dictionary
C6_Witness ==
    \E c \in Calls : call[c].split_called /\
        \E i \in 1..Len(call[c].tokens) :
            /\ IsPreserveOrderToken(call[c].tokens[i])
            /\ \E f \in 1..Len(ClassFields(call[c].tokens[i])) :
                   ClassFields(call[c].tokens[i])[f].t = "dict"
            /\ Estimate(call[c].tokens[i]) > 1

(***************************************************************************)
(* C7: within a chunk the variants are submitted to the verbalizer in      *)
(* enumeration order; the first variant with a non-empty lattice is        *)
(* accepted, its shortest path is the chunk's output text, and no later    *)
(* variant is submitted for that chunk.                                    *)
(***************************************************************************)
\* the serializations of the first n variants of an enumeration
SerPrefix(variants, n) == [j \in 1..n |-> variants[j].ser]

\* submitted is an initial segment of the enumeration in which every variant
\* but the last one had an empty lattice
SubmittedInOrder(variants, submitted) ==
    /\ Len(submitted) <= Len(variants)
    /\ submitted = SerPrefix(variants, Len(submitted))
    /\ \A j \in 1..(Len(submitted) - 1) : find_verbalizer(variants[j]) = {}

C7_FirstAcceptedVariant ==
    \A c \in Calls :
        /\ InChunk(c) =>
               SubmittedInOrder(generate_permutations(CurrentChunk(c)), call[c].submitted)
        /\ \A k \in 1..Len(call[c].chunk_log) :
               LET variants == generate_permutations(call[c].split_tokens[k])
                   entry == call[c].chunk_log[k]
                   n == Len(entry.submitted)
               IN /\ n >= 1
                  /\ SubmittedInOrder(variants, entry.submitted)
                  /\ find_verbalizer(variants[n]) # {}
                  /\ \A q \in find_verbalizer(variants[n]) :
                         q.w >= shortestpath(find_verbalizer(variants[n])).w
                  /\ entry.piece = shortestpath(find_verbalizer(variants[n])).out

\* a chunk was accepted on a variant that is neither the first nor the last
\* of its enumeration
C7_Witness ==
    \E c \in Calls : \E k \in 1..Len(call[c].chunk_log) :
        /\ Len(call[c].chunk_log[k].submitted) > 1
        /\ Len(call[c].chunk_log[k].submitted)
               < Len(generate_permutations(call[c].split_tokens[k]))

(***************************************************************************)
(* C8: a token marked preserve_order has exactly one serialization in the  *)
(* enumeration, its content in the given order, whatever fields and nested *)
(* children it has.                                                        *)
(* Stated as written (C8_ExactlyOneSerialization) and as amended: the      *)
(* token's own fields keep their given order, and each nested dictionary   *)
(* without the flag is still enumerated in every order of its fields.      *)
(***************************************************************************)
\* the trees the enumeration of a chunk gives to the token at position p
TokenVariants(variants, p) == {variants[j].trees[p] : j \in 1..Len(variants)}

\* the number of orders of a dictionary: one for its own fields when it holds
\* the flag, every order otherwise, times the orders of its nested dictionaries
RECURSIVE OrdersOf(_)
OrdersOf(d) ==
    LET nested == {i \in 1..Len(d) : d[i].t = "dict"}
        RECURSIVE prod(_)
        prod(S) == IF S = {} THEN 1
                   ELSE LET i == CHOOSE x \in S : TRUE
                        IN OrdersOf(d[i].d) * prod(S \ {i})
    IN (IF HasKey(d, PRESERVE_ORDER_KEY) THEN 1 ELSE factorial(Len(d))) * prod(nested)

\* the positions of the chunk being enumerated that hold a preserve_order token
PreservedPositions(c) ==
    {p \in 1..Len(CurrentChunk(c)) : IsPreserveOrderToken(CurrentChunk(c)[p])}

C8_ExactlyOneSerialization ==
    \A c \in Calls : InChunk(c) =>
        \A p \in PreservedPositions(c) :
            TokenVariants(call[c].tags_reordered, p) = {CurrentChunk(c)[p]}

\* C8 amended
C8_OwnOrderPreserved ==
    \A c \in Calls : InChunk(c) =>
        \A p \in PreservedPositions(c) :
            LET token == CurrentChunk(c)[p]
                trees == TokenVariants(call[c].tags_reordered, p)
            IN /\ \A t \in trees : Keys(ClassFields(t)) = Keys(ClassFields(token))
               /\ token \in trees
               /\ call[c].tags_reordered[1].trees[p] = token
               /\ Cardinality(trees) = OrdersOf(token)

\* a preserve_order token with a nested dictionary has been enumerated and
\* one of its serializations submitted
C8_Witness ==
    \E c \in Calls :
        /\ InChunk(c) /\ call[c].t_idx >= 1
        /\ \E p \in PreservedPositions(c) :
               /\ \E f \in 1..Len(ClassFields(CurrentChunk(c)[p])) :
                      ClassFields(CurrentChunk(c)[p])[f].t = "dict"
               /\ Cardinality(TokenVariants(call[c].tags_reordered, p)) > 1

(***************************************************************************)
(* C9: in normalize_list a text whose normalization fails affects only its *)
(* own result: the call returns one result per input text, and every text  *)
(* that normalizes has its normalization in the result.                    *)
(***************************************************************************)
ListEnded == nl.pc \in {"done", "raised"}

C9_FailureStaysLocal ==
    (ListEnded /\ nl.texts # <<>>) =>
        /\ nl.ret.kind = "return"
        /\ Len(nl.ret.value) = Len(nl.texts)
        /\ \A k \in 1..Len(nl.texts) :
               normalize(nl.texts[k]).kind = "return"
                   => nl.ret.value[k] = normalize(nl.texts[k]).value

(***************************************************************************)
(* C10: two normalize() calls running concurrently on one Normalizer do    *)
(* not interfere: under every interleaving each call ends as it ends when  *)
(* run alone.                                                              *)
(***************************************************************************)
C10_NoInterference ==
    \A c \in Calls :
        call[c].pc \in {"done", "raised"} => call[c].ret = normalize(call[c].arg)

(***************************************************************************)
(* C11: the classifier returns the decoding of a minimum-weight accepting  *)
(* path of the lattice of taggings: a tagging B is never returned while a  *)
(* tagging A of the same input with strictly smaller weight exists.        *)
(***************************************************************************)
\* the call has taken its tagged text from the lattice of its text
Tagged(c) == call[c].pc \notin {"idle", "start", "find_tags"} /\ call[c].tagged_text # <<>>

\* the weights at which the lattice holds the tagging toks
WeightsOf(lattice, toks) == {p.w : p \in {q \in lattice : q.toks = toks}}

C11_MinimumWeightTagging ==
    \A c \in Calls : Tagged(c) =>
        LET lattice == find_tags(call[c].text)
            returned == WeightsOf(lattice, call[c].tagged_text)
        IN /\ returned # {}
           /\ \E w \in returned : \A a \in lattice : a.w >= w

\* a tagging was returned from a lattice that holds a strictly heavier tagging
\* made of class tokens only (the two readings of a date)
C11_Witness ==
    \E c \in Calls : Tagged(c) /\
        \E b \in find_tags(call[c].text) :
            /\ b.toks # call[c].tagged_text
            /\ \A i \in 1..Len(b.toks) : b.toks[i][1].d[1].t = "dict"
            /\ \A w \in WeightsOf(find_tags(call[c].text), call[c].tagged_text) : b.w > w

(***************************************************************************)
(* C12: a normalize() call runs its stages in the order classify, parse,   *)
(* split, permute-and-verbalize chunk by chunk in sequence order,          *)
(* concatenate, post-process, return; a stage starts only when the one     *)
(* before it has succeeded, and post-processing runs only after every      *)
(* chunk has been verbalized, never on the fallback path.                  *)
(***************************************************************************)
\* the step of call c from position from to position to
Moves(c, from, to) == call[c].pc = from /\ call'[c].pc = to

\* the text the call returns when every chunk has been verbalized
Assembled(c) ==
    LET output == SpaceDupSub(DropFirst(call[c].output, 1))
    IN IF post_processor THEN post_process(output) ELSE output

StageStep(c) ==
    \/ call'[c] = call[c]
    \* an empty text returns at once
    \/ Moves(c, "start", "done") /\ Strip(call[c].arg) = <<>>
    \/ Moves(c, "start", "find_tags")
    \* classify, then parse only a tagging the classifier found
    \/ Moves(c, "find_tags", "raised") /\ find_tags(call[c].text) = {}
    \/ Moves(c, "find_tags", "parser_call") /\ find_tags(call[c].text) # {}
    \/ Moves(c, "parser_call", "parse")
    \/ Moves(c, "parse", "split")
    \* split, then the chunk loop only when the split returned
    \/ Moves(c, "split", "raised") /\ call'[c].split_tokens = <<>>
    \/ Moves(c, "split", "chunk") /\ call'[c].s_idx = 0 /\ call'[c].chunk_log = <<>>
    \* the chunks in sequence order, each after the one before it was verbalized
    \/ /\ Moves(c, "chunk", "variant")
       /\ Len(call[c].chunk_log) = call[c].s_idx
       /\ call'[c].tags_reordered = generate_permutations(call[c].split_tokens[call[c].s_idx + 1])
    \/ Moves(c, "variant", "variant")
    \/ Moves(c, "variant", "chunk_end")
    \/ /\ Moves(c, "chunk_end", "chunk")
       /\ call'[c].s_idx = call[c].s_idx + 1
       /\ Len(call'[c].chunk_log) = call'[c].s_idx
    \* the fallback return: no concatenation, no post-processing
    \/ /\ Moves(c, "chunk_end", "done")
       /\ call'[c].fallback /\ call'[c].ret.value = call[c].text
    \* concatenate and post-process once every chunk has been verbalized
    \/ /\ Moves(c, "chunk", "done")
       /\ ~call'[c].fallback
       /\ Len(call[c].chunk_log) = Len(call[c].split_tokens)
       /\ call'[c].ret.value = Assembled(c)

C12_StageOrder == [][\A c \in Calls : StageStep(c)]_vars

\* a call of two chunks has returned its post-processed text
C12_Witness ==
    \E c \in Calls :
        /\ call[c].pc = "done" /\ ~call[c].fallback /\ post_processor
        /\ Len(call[c].split_tokens) >= 2
        /\ Len(call[c].chunk_log) = Len(call[c].split_tokens)

(***************************************************************************)
(* C13: parsing the serialization of a token tree the parser produced,     *)
(* fields in their stored order, gives the tree back: class names, fields, *)
(* order, values and flags.                                                *)
(***************************************************************************)
\* the parser has just returned the tokens of the call
Parsed(c) == call[c].pc = "split" /\ call[c].tokens # <<>>

C14_PostProcessIdempotent ==
    \A c \in Calls :
        (call[c].pc = "done" /\ call[c].ret.kind = "return")
            => call[c].ret.value = call[c].output

(***************************************************************************)
(* C15: the joiner-hyphen rewrite turns '-' into a space only where the    *)
(* hyphen stands right after a digit (ASCII or native) and right before a  *)
(* letter of the script; a hyphen between two digits, of either script,    *)
(* is left as it is, and every other character passes through unchanged.   *)
(***************************************************************************)
IsDigit(ch) == ch \in {"1", "n"}
IsScriptLetter(ch) == ch = "a"

\* the hyphen at position i of s joins a digit to a letter of the script
JoinsDigitToLetter(s, i) ==
    s[i] = "-" /\ i > 1 /\ i < Len(s) /\ IsDigit(s[i - 1]) /\ IsScriptLetter(s[i + 1])

C15_HyphenOnlyBetweenDigitAndLetter ==
    \A c \in Calls :
        (call[c].pc = "done" /\ call[c].ret.kind = "return") =>
            /\ Len(call[c].ret.value) = Len(call[c].arg)
            /\ \A i \in 1..Len(call[c].arg) :
                   call[c].ret.value[i] =
                       IF JoinsDigitToLetter(call[c].arg, i) THEN " " ELSE call[c].arg[i]

(***************************************************************************)
(* C16: for a time token of hours, minutes and seconds without             *)
(* preserve_order the field-order search gives the same spoken text        *)
(* whichever of the six orders the fields have in the tagged text: the     *)
(* hours, minutes, seconds reading.                                        *)
(***************************************************************************)
\* the hours, minutes, seconds reading of the fields, whatever their order
HoursMinutesSeconds(fields) ==
    FieldValue(fields, "hours") \o <<" ", "baje", " ">> \o FieldValue(fields, "minutes")
        \o <<" ", "minute", " ">> \o FieldValue(fields, "seconds") \o <<" ", "second">>

C16_TimeReadingWhateverTheOrder ==
    \A c \in Calls :
        /\ call[c].pc = "done" =>
               /\ ~call[c].fallback
               /\ call[c].ret.value = HoursMinutesSeconds(ClassFields(call[c].tagged_text[1]))
        /\ call[c].pc = "raised" =>
               max_number_of_permutations_per_split < factorial(3)

\* a call has returned for a token whose fields were tagged seconds first,
\* after more than one serialization was tried
C16_Witness ==
    \E c \in Calls :
        /\ call[c].pc = "done"
        /\ Keys(ClassFields(call[c].tagged_text[1])) = <<"seconds", "minutes", "hours">>
        /\ Len(call[c].chunk_log[1].submitted) > 1

(***************************************************************************)
(* C17: a grammar constructed with a cache directory is loaded from its    *)
(* cache file, and not rebuilt, when the file exists and overwrite_cache   *)
(* is false; otherwise it is built and then written to the cache file.     *)
(* With no cache directory it is built and no cache file is read or        *)
(* written.  (No cache directory is cache_dir None or the str "None".)     *)
(***************************************************************************)
ConstructionStep ==
    LET c == construction'
        built == graph(c.class, c.lang, c.deterministic, c.input_case, c.whitelist)
    IN construction' # construction =>
          IF c.cache_dir \in {None, "None"}
          THEN /\ c.created /\ ~c.restored /\ ~c.saved
               /\ c.far_file = <<>>
               /\ c.fst = built
               /\ far_files' = far_files
          ELSE IF os_path_exists(far_files, c.far_file) /\ ~c.overwrite_cache
          THEN /\ c.restored /\ ~c.created /\ ~c.saved
               /\ c.fst = Far(far_files, c.far_file)
               /\ far_files' = far_files
          ELSE /\ c.created /\ ~c.restored /\ c.saved
               /\ c.fst = built
               /\ os_path_exists(far_files', c.far_file)
               /\ Far(far_files', c.far_file) = built
               /\ \A f \in far_files : f.name # c.far_file => f \in far_files'

C17_LoadElseBuildAndWrite == [][ConstructionStep]_vars

\* a grammar has been restored from the file an earlier construction wrote
C17_Witness ==
    /\ construction.n = 2
    /\ construction.restored
    /\ construction.cache_dir = "cache"
    /\ os_path_exists(far_files, construction.far_file)

(***************************************************************************)
(* C18: two classifier configurations that differ in language,             *)
(* determinism flag, input case or whitelist never resolve to the same     *)
(* cache file, so a classifier never holds a grammar that was cached for   *)
(* a different whitelist.                                                  *)
(***************************************************************************)
C18_CacheFilePerConfiguration ==
    construction.class = "ClassifyFst" =>
        construction.fst = graph("ClassifyFst", construction.lang, construction.deterministic,
                                 construction.input_case, construction.whitelist)

(***************************************************************************)
(* C19: constructing a Normalizer for a language code outside the          *)
(* supported set fails with the unsupported-language error, raised before  *)
(* any grammar module is imported and before any grammar is built.         *)
(***************************************************************************)
C19_UnsupportedLanguageFailsFirst ==
    construction.lang \notin SUPPORTED_LANGUAGES =>
        /\ construction.imported = {}
        /\ construction.built = {}
        /\ construction.pc \in {"assert", "lang", "raised"}
        /\ construction.pc = "raised" => construction.exc = "NotImplementedError"

(***************************************************************************)
(* C20: the text assembled from the chunk outputs is the outputs in chunk  *)
(* order separated by single spaces, with every run of two or more spaces  *)
(* collapsed to one: before post-processing it holds no two consecutive    *)
(* spaces.                                                                 *)
(***************************************************************************)
\* t from its i-th character on, without the spaces that follow a space
RECURSIVE CollapseFrom(_, _)
CollapseFrom(t, i) ==
    IF i > Len(t) THEN <<>>
    ELSE IF t[i] = " " /\ i > 1 /\ t[i - 1] = " " THEN CollapseFrom(t, i + 1)
    ELSE <<t[i]>> \o CollapseFrom(t, i + 1)

NoTwoSpaces(t) == \A i \in 1..(Len(t) - 1) : ~(t[i] = " " /\ t[i + 1] = " ")

\* the chunk outputs of a call, in chunk order
ChunkOutputs(c) == [i \in 1..Len(call[c].chunk_log) |-> call[c].chunk_log[i].piece]

C20_ChunkOutputsJoinedAndCollapsed ==
    \A c \in Calls :
        (call[c].pc = "done" /\ ~call[c].fallback) =>
            LET assembled == CollapseFrom(JoinSpace(ChunkOutputs(c)), 1)
            IN /\ NoTwoSpaces(assembled)
               /\ call[c].ret.value = IF post_processor THEN post_process(assembled)
                                      ELSE assembled

\* a call without post-processor has returned the text of two chunks whose
\* outputs, joined, hold two spaces side by side
C20_Witness ==
    \E c \in Calls :
        /\ call[c].pc = "done"
        /\ ~call[c].fallback
        /\ ~post_processor
        /\ Len(call[c].chunk_log) = 2
        /\ ~NoTwoSpaces(JoinSpace(ChunkOutputs(c)))

(***************************************************************************)
(* C21: normalize() leaves the Normalizer's grammars and configuration     *)
(* unchanged: no step of a call changes the post-processor, the bound      *)
(* max_number_of_permutations_per_split, the grammars the constructor      *)
(* built or the cache files.  (The tagger and the verbalizer are the       *)
(* operators find_tags and find_verbalizer; no step can change them.)      *)
(***************************************************************************)
C21_ConfigurationUnchanged ==
    [][UNCHANGED <<max_number_of_permutations_per_split, post_processor,
                   construction, far_files>>]_vars

\* a call with a post-processor has returned a normalization, and has left
\* its tagged text in the parser, the one attribute normalize() does change
C21_Witness ==
    \E c \in Calls :
        /\ call[c].pc = "done"
        /\ ~call[c].fallback
        /\ post_processor
        /\ parser # <<>>

(***************************************************************************)
(* C22: in each classifier of src (hi, kn, ta, te) in deterministic mode   *)
(* the weight of the catch-all word class is strictly greater than the     *)
(* weight of the punctuation token, which is strictly greater than the     *)
(* priority weight of every semantic class.                                *)
(***************************************************************************)
WordClassAdded ==
    \E i \in 1..Len(construction.classify) : construction.classify[i].class = "word"

C22_WordAbovePunctAboveClasses ==
    (construction.pc = "done" /\ construction.deterministic) =>
        /\ WordClassAdded
        /\ \A i \in 1..Len(construction.classify) :
              construction.classify[i].class = "word" =>
                  construction.classify[i].w > construction.punct
        /\ \A i \in 1..Len(construction.classify) :
              construction.classify[i].class # "word" =>
                  construction.classify[i].w < construction.punct

\* the deterministic Hindi classifier is assembled: all seventeen classes
\* of its union, the punctuation token and the word class
C22_Witness ==
    /\ construction.pc = "done"
    /\ construction.deterministic
    /\ construction.lang = "hi"
    /\ Len(construction.classify) = Len(classify_union("hi")) + 1
    /\ construction.punct > 0

(***************************************************************************)
(* C23: if for some chunk no enumerated variant yields a non-empty         *)
(* verbalizer lattice, normalize() raises nothing, discards the text       *)
(* produced for earlier chunks, skips the remaining chunks and             *)
(* post-processing, and returns its fallback text.                         *)
(***************************************************************************)
\* no serialization of the chunk is accepted by the verbalizer
NoVariantAccepted(chunk) ==
    \A variants \in {generate_permutations(chunk)} :
        \A j \in 1..Len(variants) : find_verbalizer(variants[j]) = {}

NoVariantStep(c) ==
    (call[c].pc = "chunk_end" /\ NoVariantAccepted(CurrentChunk(c))) =>
        \/ call'[c] = call[c]
        \/ /\ call'[c].pc = "done"
           /\ call'[c].fallback
           /\ call'[c].ret.kind = "return"
           /\ call'[c].ret.value = call[c].text
           /\ call'[c].chunk_log = call[c].chunk_log
           /\ call'[c].s_idx = call[c].s_idx

C23_NoVariantFallsBack == [][\A c \in Calls : NoVariantStep(c)]_vars

\* a call with a post-processor fell back on its second chunk, after the
\* first chunk had been verbalized
C23_Witness ==
    \E c \in Calls :
        /\ call[c].pc = "done"
        /\ call[c].fallback
        /\ post_processor
        /\ Len(call[c].chunk_log) = 1
        /\ call[c].s_idx = 1
        /\ NoVariantAccepted(call[c].split_tokens[2])

(***************************************************************************)
(* C24: when the split fails because one token's estimated permutation     *)
(* count exceeds the bound, normalize() reports that failure to its caller *)
(* as a distinct error; it is not turned into the silent fallback return.  *)
(***************************************************************************)
HasOversizedToken(c) ==
    \E i \in 1..Len(call[c].tokens) :
        Estimate(call[c].tokens[i]) > max_number_of_permutations_per_split

C24_SplitFailureReachesCaller ==
    \A c \in Calls :
        /\ (call[c].split_called /\ HasOversizedToken(c)) =>
               /\ call[c].ret.kind = "raise"
               /\ call[c].ret.exc = "ValueError"
               /\ ~call[c].fallback
               /\ call[c].pc # "done"
        \* distinct: no other failure reaches the caller as a ValueError
        /\ (call[c].ret.kind = "raise" /\ call[c].ret.exc = "ValueError") =>
               (call[c].ret.at = "split" /\ HasOversizedToken(c))

\* the call for a text of one token has ended with the split's ValueError
C24_Witness ==
    \E c \in Calls :
        /\ call[c].pc = "raised"
        /\ call[c].ret.exc = "ValueError"
        /\ Len(call[c].tokens) = 1
        /\ HasOversizedToken(c)

(***************************************************************************)
(* C25: the variants of a chunk are enumerated in a fixed order that       *)
(* depends only on the chunk: two enumerations of equal chunks give        *)
(* identical sequences of variants, and the first variant is the chunk     *)
(* serialized in its original field order at every nesting level.          *)
(***************************************************************************)
\* a token with a dictionary among its fields
HasNestedDict(token) ==
    \E i \in 1..Len(ClassFields(token)) : ClassFields(token)[i].t = "dict"

C25_FixedEnumerationOrder ==
    \A c \in Calls :
        \* the enumeration under way starts with the chunk as it is
        /\ InChunk(c) =>
               /\ Len(call[c].tags_reordered) >= 1
               /\ call[c].tags_reordered[1].trees = CurrentChunk(c)
               /\ call[c].submitted # <<>> =>
                      call[c].submitted[1] = call[c].tags_reordered[1].ser
        \* equal chunks were enumerated alike
        /\ \A k1 \in 1..Len(call[c].chunk_log), k2 \in 1..Len(call[c].chunk_log) :
               call[c].split_tokens[k1] = call[c].split_tokens[k2] =>
                   call[c].chunk_log[k1].submitted = call[c].chunk_log[k2].submitted
        /\ \A k \in 1..Len(call[c].chunk_log) :
               InChunk(c) /\ call[c].split_tokens[k] = CurrentChunk(c) =>
                   call[c].submitted
                       = SubSeq(call[c].chunk_log[k].submitted, 1, Len(call[c].submitted))

\* two equal chunks of a token with a nested dictionary have both been
\* enumerated
C25_Witness ==
    \E c \in Calls :
        /\ Len(call[c].chunk_log) = 2
        /\ call[c].split_tokens[1] = call[c].split_tokens[2]
        /\ Len(call[c].split_tokens[1]) = 1
        /\ HasNestedDict(call[c].split_tokens[1][1])

(***************************************************************************)
(* C26: the split is greedy: walking left to right with a running product  *)
(* p that is reset to 1 at each boundary, a chunk boundary is placed       *)
(* before token i exactly when p times the estimate of token i exceeds M;  *)
(* hence for a non-empty sequence no returned chunk is empty, and two date *)
(* tokens of three fields each with M = 6 give two one-token chunks.       *)
(***************************************************************************)
\* the running product before token i is counted
RECURSIVE RunningProduct(_, _, _)
RunningProduct(tokens, M, i) ==
    IF i = 1 THEN 1
    ELSE LET p == RunningProduct(tokens, M, i - 1)
             n == Estimate(tokens[i - 1])
         IN IF p * n > M THEN n ELSE p * n

GreedyBoundaries(tokens, M) ==
    {i \in 1..Len(tokens) : RunningProduct(tokens, M, i) * Estimate(tokens[i]) > M}

\* the positions in the token sequence at which the chunks after the first begin
ChunkStarts(splits) ==
    {SumLen(SubSeq(splits, 1, k)) + 1 : k \in 1..(Len(splits) - 1)}

IsThreeFieldDate(token) ==
    /\ token[1].d[1].k = "date"
    /\ Len(ClassFields(token)) = 3
    /\ ~IsPreserveOrderToken(token)

C26_GreedySplit ==
    \A c \in Calls : (SplitReturned(c) /\ call[c].tokens # <<>>) =>
        /\ ChunkStarts(call[c].split_tokens)
               = GreedyBoundaries(call[c].tokens, max_number_of_permutations_per_split)
        /\ \A k \in 1..Len(call[c].split_tokens) : call[c].split_tokens[k] # <<>>
        /\ (/\ Len(call[c].tokens) = 2
            /\ IsThreeFieldDate(call[c].tokens[1])
            /\ IsThreeFieldDate(call[c].tokens[2])
            /\ max_number_of_permutations_per_split = factorial(3)) =>
               call[c].split_tokens = << <<call[c].tokens[1]>>, <<call[c].tokens[2]>> >>

\* the split has returned two chunks for three tokens, the second chunk
\* made of two tokens counted from 1 again after the boundary
C26_Witness ==
    \E c \in Calls :
        /\ SplitReturned(c)
        /\ Len(call[c].tokens) = 3
        /\ Len(call[c].split_tokens) = 2
        /\ Len(call[c].split_tokens[2]) = 2
        /\ Estimate(call[c].tokens[1]) * Estimate(call[c].tokens[2])
               > max_number_of_permutations_per_split

\* the span has been tagged and both grammars accept it
BothAccept ==
    /\ construction.pc = "tagged"
    /\ TelephoneFst(construction.span) # {}
    /\ CardinalFst(construction.span) # {}

\* C27: in the Kannada classifier, for every span that both the telephone
\* grammar and the cardinal grammar accept, the minimum-weight tagging (class
\* priority weight plus the grammar's internal weights) is the telephone one.
C27_TelephoneOverCardinal == BothAccept => construction.tagged.class = "telephone"

\* the day-month-year readings in the lattice of the input
DayMonthYearReadings == {r \in construction.lattice : r.form = "dd_mm_yyyy"}

\* C28: for every input A-B-C that admits a day-month-year reading, that
\* reading is the unique minimum-weight tagging: no month-first or year-first
\* reading of the same input has equal or lower weight.
C28_DayMonthYearPreferred ==
    construction.pc \in {"lattice", "tagged"} =>
        \A r \in DayMonthYearReadings :
            \A q \in construction.lattice : q.form # "dd_mm_yyyy" => r.w < q.w

\* C29: for every chunk returned by the split, the number of serialized
\* variants generate_permutations yields, and so the number of verbalizer
\* invocations normalize() makes for the chunk, is at most the chunk's
\* estimated permutation product and hence at most
\* max_number_of_permutations_per_split.
C29_VariantsWithinEstimate ==
    \A c \in Calls :
        InChunk(c) =>
            /\ Len(call[c].submitted) <= Len(call[c].tags_reordered)
            /\ Len(call[c].tags_reordered) <= ChunkProduct(CurrentChunk(c))
            /\ ChunkProduct(CurrentChunk(c)) <= max_number_of_permutations_per_split

\* every variant of a chunk of more than one variant went to the verbalizer,
\* and their number is the bound itself
C29_Witness ==
    \E c \in Calls :
        /\ call[c].pc = "chunk_end"
        /\ Len(call[c].submitted) = Len(call[c].tags_reordered)
        /\ Len(call[c].tags_reordered) = max_number_of_permutations_per_split
        /\ Len(call[c].tags_reordered) > 1

\* normalize() returns for every text of the list
EveryTextNormalizes == \A k \in 1..Len(nl.texts) : normalize(nl.texts[k]).kind = "return"

\* C30: for every list of texts, the empty list included, and every
\* batch_size of at least 1, normalize_list returns a list of the same length
\* whose i-th element is normalize(texts[i]); batching neither drops,
\* duplicates nor reorders texts.
C30_ListOfNormalizedTexts ==
    (ListEnded /\ EveryTextNormalizes) =>
        /\ nl.ret.kind = "return"
        /\ nl.ret.value = [k \in 1..Len(nl.texts) |-> normalize(nl.texts[k]).value]

====
